---------------------------- MODULE Spec2Model ----------------------------
(***************************************************************************)
(* Model of src/src/mesh/coordinates.cxx (BOUT++ Coordinates): the         *)
(* construction of a Geometry (getCoordinates, getCoordinatesStaggered,    *)
(* getCoordinatesXYCorner), the metric inversion, jacobian(), geometry()   *)
(* and the location assertions of the differential operators.              *)
(*                                                                         *)
(* Real numbers are exact rationals <<n, d>> in lowest terms with d > 0;   *)
(* d = 0 encodes the non-finite IEEE values: <<0,0>> is NaN, <<1,0>> is    *)
(* +Inf and <<-1,0>> is -Inf.  Arithmetic follows IEEE for the non-finite  *)
(* values (NaN propagates, Inf - Inf = NaN, 0 * Inf = NaN, x / 0 = Inf).   *)
(***************************************************************************)
EXTENDS Integers, Sequences, FiniteSets, TLC

VARIABLES
  mesh,     \* the local mesh: guard widths and interior sizes
  kind,     \* which construction entry point runs
  src,      \* what the entry point reads: grid source or source Coordinates
  res,      \* the Coordinates object under construction (result)
  pc,       \* position of the entry point in its code
  err,      \* "" or the message of the exception that ended the construction
  steps,    \* history: the construction steps that have run, in order
  report,   \* output_error: the grid indices written by the metric inversion
  ncomm,    \* history: the number of fields geometry() handed to the halo exchange
  call      \* an operator call on a finished Geometry and its outcome

vars == <<mesh, kind, src, res, pc, err, steps, report, ncomm, call>>

---------------------------------------------------------------------------
(* Exact arithmetic with IEEE non-finite values                            *)

AbsI(i) == IF i < 0 THEN -i ELSE i

SignI(i) == IF i < 0 THEN -1 ELSE IF i > 0 THEN 1 ELSE 0

RECURSIVE Gcd(_, _)
Gcd(a, b) == IF b = 0 THEN a ELSE Gcd(b, a % b)

\* the value n/d in lowest terms; d = 0 gives NaN or +-Inf by the sign of n
Rat(n, d) ==
  IF d = 0 THEN <<SignI(n), 0>>
  ELSE LET g == Gcd(AbsI(n), AbsI(d))
           s == IF d < 0 THEN -1 ELSE 1
       IN  <<(s * n) \div g, (s * d) \div g>>

R(i) == <<i, 1>>
NaN == <<0, 0>>
Inf == <<1, 0>>
Zero == <<0, 1>>
One == <<1, 1>>

IsFinite(a) == a[2] # 0
IsNaN(a) == a = NaN

Neg(a) == <<-a[1], a[2]>>

Add(a, b) ==
  IF a[2] = 0 /\ b[2] = 0 THEN (IF a = b THEN a ELSE NaN)
  ELSE IF a[2] = 0 THEN a
  ELSE IF b[2] = 0 THEN b
  ELSE LET g == Gcd(a[2], b[2])
       IN  Rat(a[1] * (b[2] \div g) + b[1] * (a[2] \div g), (a[2] \div g) * b[2])

Sub(a, b) == Add(a, Neg(b))

Mul(a, b) ==
  IF a[2] = 0 \/ b[2] = 0 THEN <<SignI(a[1]) * SignI(b[1]), 0>>
  ELSE IF a[1] = 0 \/ b[1] = 0 THEN <<0, 1>>
  ELSE LET g1 == Gcd(AbsI(a[1]), b[2])
           g2 == Gcd(AbsI(b[1]), a[2])
       IN  <<(a[1] \div g1) * (b[1] \div g2), (a[2] \div g2) * (b[2] \div g1)>>

Inv(a) == Rat(a[2], a[1])

Div(a, b) == Mul(a, Inv(b))

AbsR(a) == <<AbsI(a[1]), a[2]>>

\* a < b as IEEE compares: false when either side is NaN
Less(a, b) ==
  IF IsNaN(a) \/ IsNaN(b) THEN FALSE
  ELSE IF a[2] = 0 /\ b[2] = 0 THEN a[1] < b[1]
  ELSE IF a[2] = 0 THEN a[1] < 0
  ELSE IF b[2] = 0 THEN b[1] > 0
  ELSE LET g == Gcd(a[2], b[2])
       IN  a[1] * (b[2] \div g) < b[1] * (a[2] \div g)

LessEq(a, b) == (~IsNaN(a) /\ a = b) \/ Less(a, b)

\* the largest r in lo .. hi with r * r <= k, by bisection
RECURSIVE ISqrtBetween(_, _, _)
ISqrtBetween(k, lo, hi) ==
  IF lo >= hi THEN lo
  ELSE LET mid == (lo + hi + 1) \div 2
       IN  IF mid * mid <= k THEN ISqrtBetween(k, mid, hi)
           ELSE ISqrtBetween(k, lo, mid - 1)

ISqrt(k) == ISqrtBetween(k, 0, IF k < 46340 THEN k ELSE 46340)

\* sqrt: exact when n/d is the square of a rational, else numerator and
\* denominator are rounded down separately; NaN for negative arguments
Sqrt(a) ==
  IF a[2] = 0 THEN (IF a = Inf THEN Inf ELSE NaN)
  ELSE IF a[1] < 0 THEN NaN
  ELSE Rat(ISqrt(a[1]), ISqrt(a[2]))

\* |a| < 10^-p, computed without leaving 32-bit integers (p <= 10)
RECURSIVE Pow10(_)
Pow10(p) == IF p = 0 THEN 1 ELSE 10 * Pow10(p - 1)

BelowPow10(a, p) ==
  IF a[2] = 0 THEN FALSE
  ELSE LET h == p \div 2
           lo == Pow10(h)
           hi == Pow10(p - h)
           n == AbsI(a[1])
       IN  \* n * lo * hi < d  <=>  n * lo <= (d - 1) \div hi
           /\ n <= 2147483647 \div lo
           /\ n * lo <= (a[2] - 1) \div hi

---------------------------------------------------------------------------
(* The local mesh (one process, boundaries on all four sides) and fields   *)

xstart == mesh.MXG
xend == mesh.MXG + mesh.nx - 1
ystart == mesh.MYG
yend == mesh.MYG + mesh.ny - 1
LocalNx == mesh.nx + 2 * mesh.MXG
LocalNy == mesh.ny + 2 * mesh.MYG
\* the x size of the whole grid: NXPE processes side by side in x, when the
\* mesh is decomposed
GlobalNx ==
  IF "NXPE" \in DOMAIN mesh THEN mesh.NXPE * mesh.nx + 2 * mesh.MXG ELSE LocalNx
GlobalNy == LocalNy
\* the z direction is not decomposed and is a single plane here
GlobalNz == 1

Points == (0 .. LocalNx - 1) \X (0 .. LocalNy - 1)

\* RGN_NOBNDRY: the cells that are not guard cells
NoBndry == (xstart .. xend) \X (ystart .. yend)

\* the cells of a region in the order the code visits them: x outer, y inner
RegionSeq(xs, xe, ys, ye) ==
  LET h == ye - ys + 1
  IN  [i \in 1 .. (xe - xs + 1) * h |-> <<xs + ((i - 1) \div h), ys + ((i - 1) % h)>>]

\* the grid points with y as the outer index (not the order of the loops)
AllSeqYX ==
  [i \in 1 .. LocalNx * LocalNy |-> <<(i - 1) % LocalNx, (i - 1) \div LocalNx>>]

AllSeq == RegionSeq(0, LocalNx - 1, 0, LocalNy - 1)
NoBndrySeq == RegionSeq(xstart, xend, ystart, yend)

InGrid(x, y) == x >= 0 /\ x < LocalNx /\ y >= 0 /\ y < LocalNy

\* f(x, y); a read outside the allocated array yields the arbitrary value oob
At(f, x, y, oob) == IF InGrid(x, y) THEN f[<<x, y>>] ELSE oob

\* Let(e, Op) is Op(e) with e evaluated once, before Op uses it
Let(e, Op(_)) == CHOOSE v \in {Op(t) : t \in {e}} : TRUE

\* TLC keeps a function constructor unevaluated until it is compared; Tab(f)
\* is f, tabulated once
Tab(f) == Let(f, LAMBDA t : IF t = t THEN t ELSE t)

ConstField(v) == Tab([p \in Points |-> v])

\* a Field2D that was declared and never assigned
Unset == <<>>

\* pointwise arithmetic of fields, over the whole local array
FMap1(Op(_), f) == Let(f, LAMBDA t : Tab([p \in Points |-> Op(t[p])]))
FMap2(Op(_, _), f, g) ==
  Let(<<f, g>>, LAMBDA t : Tab([p \in Points |-> Op(t[1][p], t[2][p])]))

FAdd(f, g) == FMap2(Add, f, g)
FSub(f, g) == FMap2(Sub, f, g)
FMul(f, g) == FMap2(Mul, f, g)
FDiv(f, g) == FMap2(Div, f, g)
FScale(c, f) == FMap1(LAMBDA v : Mul(c, v), f)
FSqrt(f) == FMap1(Sqrt, f)
FAbs(f) == FMap1(AbsR, f)

\* finite(f, rgn): every value of the region is finite
finite(f, rgn) == Let(f, LAMBDA t : \A p \in rgn : IsFinite(t[p]))

RECURSIVE MinFrom(_, _, _, _)
MinFrom(f, seq, i, cur) ==
  IF i > Len(seq) THEN cur
  ELSE Let(IF Less(f[seq[i]], cur) THEN f[seq[i]] ELSE cur,
           LAMBDA c : MinFrom(f, seq, i + 1, c))

\* min(f): the smallest value over RGN_NOBNDRY, found by comparing with <
min(f) == Let(f, LAMBDA t : MinFrom(t, NoBndrySeq, 2, t[NoBndrySeq[1]]))

---------------------------------------------------------------------------
(* Collaborators of the mesh layer                                         *)

\* columns on closed field lines: the y guard cells there lie across a branch cut
hasBranchCutDown(x) == x \in mesh.core
hasBranchCutUp(x) == x \in mesh.core
hasBranchCut == mesh.core # {}

\* halo exchange of one field: one process, so only the periodic y guard cells
\* of the closed-field-line columns are filled
communicate(f) ==
  Let(f, LAMBDA t : Tab([p \in Points |->
     IF p[1] \in mesh.core /\ p[2] < ystart THEN t[<<p[1], p[2] + mesh.ny>>]
     ELSE IF p[1] \in mesh.core /\ p[2] > yend THEN t[<<p[1], p[2] - mesh.ny>>]
     ELSE t[p]]))

\* the x cells of a y boundary: the columns that end on a target plate
OpenColumns == SelectSeq([i \in 1 .. mesh.nx |-> xstart + i - 1], LAMBDA x : x \notin mesh.core)

\* the process holds the first (last) part of the grid in x: always so when
\* the mesh is not decomposed
FirstInX == IF "PE_XIND" \in DOMAIN mesh THEN mesh.PE_XIND = 0 ELSE TRUE
LastInX == IF "PE_XIND" \in DOMAIN mesh THEN mesh.PE_XIND = mesh.NXPE - 1 ELSE TRUE

\* getBoundaries(): inner x, outer x, lower y, upper y; a process has the x
\* boundaries that lie on its part of the grid
getBoundaries ==
  (IF FirstInX
   THEN << [bx |-> -1, by |-> 0, width |-> mesh.MXG,
            pts |-> RegionSeq(xstart - 1, xstart - 1, ystart, yend)] >>
   ELSE << >>)
  \o (IF LastInX
      THEN << [bx |-> 1, by |-> 0, width |-> mesh.MXG,
               pts |-> RegionSeq(xend + 1, xend + 1, ystart, yend)] >>
      ELSE << >>)
  \o << [bx |-> 0, by |-> -1, width |-> mesh.MYG,
         pts |-> [i \in 1 .. Len(OpenColumns) |-> <<OpenColumns[i], ystart - 1>>]],
        [bx |-> 0, by |-> 1, width |-> mesh.MYG,
         pts |-> [i \in 1 .. Len(OpenColumns) |-> <<OpenColumns[i], yend + 1>>]] >>

\* the 4-point interpolation stencil: (9 (m + p) - mm - pp) / 16
interp(mm, m, p, pp) ==
  Div(Sub(Sub(Mul(R(9), Add(m, p)), mm), pp), R(16))

\* interp_to(f, location, RGN_NOBNDRY) for a field at floc: the stencil along
\* the staggered direction at the cells of RGN_NOBNDRY; the other cells of the
\* result are not set (oob).  No stagger between the two locations: a copy.
interp_to(f, floc, location, oob) ==
  LET sx == IF floc = "CELL_CENTRE" /\ location = "CELL_XLOW" THEN 1 ELSE 0
      sy == IF floc = "CELL_CENTRE" /\ location = "CELL_YLOW" THEN 1 ELSE 0
  IN  IF sx = 0 /\ sy = 0 THEN f
      ELSE Let(f, LAMBDA t : Tab([p \in Points |->
             IF p \in NoBndry
             THEN interp(At(t, p[1] - 2 * sx, p[2] - 2 * sy, oob),
                         At(t, p[1] - sx, p[2] - sy, oob),
                         t[p],
                         At(t, p[1] + sx, p[2] + sy, oob))
             ELSE oob]))

---------------------------------------------------------------------------
(* interpolateAndExtrapolate                                               *)

\* a linear extrapolation 2 r[n-1] - r[n-2] in place of the cubic one
Cubic_linear(r, x, y, sx, sy, oob) ==
  Sub(Mul(R(2), At(r, x - sx, y - sy, oob)), At(r, x - 2 * sx, y - 2 * sy, oob))

\* 3 r[n-1] - 3 r[n-2] + r[n-3] along the direction (sx, sy), written at (x, y)
Cubic(r, x, y, sx, sy, oob) ==
  Add(Sub(Mul(R(3), At(r, x - sx, y - sy, oob)),
          Mul(R(3), At(r, x - 2 * sx, y - 2 * sy, oob))),
      At(r, x - 3 * sx, y - 3 * sy, oob))

\* the guard layers i .. width-1 of one boundary cell, by cubic extrapolation
RECURSIVE CubicGuards(_, _, _, _, _)
CubicGuards(r, b, pt, i, oob) ==
  IF i >= b.width THEN r
  ELSE LET xi == pt[1] + i * b.bx
           yi == pt[2] + i * b.by
       IN  Let([r EXCEPT ![<<xi, yi>>] = Cubic(r, xi, yi, b.bx, b.by, oob)],
               LAMBDA t : CubicGuards(t, b, pt, i + 1, oob))

\* the guard layers i .. width-1 set equal to the last grid point
RECURSIVE ConstGuards(_, _, _, _, _)
ConstGuards(r, b, pt, i, oob) ==
  IF i >= b.width THEN r
  ELSE Let([r EXCEPT ![<<pt[1] + i * b.bx, pt[2] + i * b.by>>] =
                       At(r, pt[1] - b.bx, pt[2] - b.by, oob)],
           LAMBDA t : ConstGuards(t, b, pt, i + 1, oob))

\* a boundary loop that never interpolates the extra boundary point
extrapStart_none(b, location) == 0

extrapStart(b, location) ==
  IF location = "CELL_XLOW" /\ b.bx > 0 THEN 1
  ELSE IF location = "CELL_YLOW" /\ b.by > 0 THEN 1
  ELSE 0

EnoughPoints(b) ==
  \/ (b.bx # 0 /\ GlobalNx - 2 * b.width >= 3)
  \/ (b.by # 0 /\ GlobalNy - 2 * b.width >= 3)

NotEnoughError(b) ==
  IF ~EnoughPoints(b) THEN ""
  ELSE IF b.bx # 0 /\ LocalNx = 1 /\ b.width = 1
  THEN "Not enough points in the x-direction"
  ELSE IF b.by # 0 /\ LocalNy = 1 /\ b.width = 1
  THEN "Not enough points in the y-direction"
  ELSE ""

\* one boundary cell: the extra interpolated point, then its guard layers
BoundaryPoint(r, f, b, location, pt, oob) ==
  LET es == extrapStart(b, location)
  IN  Let(IF es > 0
          THEN [r EXCEPT ![pt] =
                  interp(At(f, pt[1] - 2 * b.bx, pt[2] - 2 * b.by, oob),
                         At(f, pt[1] - b.bx, pt[2] - b.by, oob),
                         At(f, pt[1], pt[2], oob),
                         At(f, pt[1] + b.bx, pt[2] + b.by, oob))]
          ELSE r,
          LAMBDA r1 : IF EnoughPoints(b) THEN CubicGuards(r1, b, pt, es, oob)
                      ELSE ConstGuards(r1, b, pt, es, oob))

RECURSIVE BoundaryCells(_, _, _, _, _, _)
BoundaryCells(r, f, b, location, k, oob) ==
  IF k > Len(b.pts) THEN r
  ELSE Let(BoundaryPoint(r, f, b, location, b.pts[k], oob),
           LAMBDA t : BoundaryCells(t, f, b, location, k + 1, oob))

\* the loop over getBoundaries(): the result, or the first exception
RECURSIVE ExtrapolateBoundaries(_, _, _, _, _)
ExtrapolateBoundaries(r, f, location, n, oob) ==
  IF n > Len(getBoundaries) THEN [err |-> "", f |-> r]
  ELSE LET b == getBoundaries[n]
       IN  IF Len(b.pts) > 0 /\ NotEnoughError(b) # ""
           THEN [err |-> NotEnoughError(b), f |-> r]
           ELSE Let(BoundaryCells(r, f, b, location, 1, oob),
                    LAMBDA t : ExtrapolateBoundaries(t, f, location, n + 1, oob))

\* rows j, j-1, .. jlast of column i, each from the three rows above it
RECURSIVE ColumnDown(_, _, _, _, _)
ColumnDown(r, i, j, jlast, oob) ==
  IF j < jlast THEN r
  ELSE Let([r EXCEPT ![<<i, j>>] = Cubic(r, i, j, 0, -1, oob)],
           LAMBDA t : ColumnDown(t, i, j - 1, jlast, oob))

\* rows j .. LocalNy-1 of column i, each from the three rows below it
RECURSIVE ColumnUp(_, _, _, _)
ColumnUp(r, i, j, oob) ==
  IF j >= LocalNy THEN r
  ELSE Let([r EXCEPT ![<<i, j>>] = Cubic(r, i, j, 0, 1, oob)],
           LAMBDA t : ColumnUp(t, i, j + 1, oob))

\* one column of the branch-cut extrapolation
BranchCutColumn(r, f, location, i, oob) ==
  LET firstjup == IF location = "CELL_YLOW" THEN yend + 1 ELSE yend
  IN  Let(IF hasBranchCutDown(i) THEN ColumnDown(r, i, ystart - 1, 1, oob) ELSE r,
        LAMBDA r1 :
          Let(IF hasBranchCutUp(i) /\ location = "CELL_YLOW"
              THEN [r1 EXCEPT ![<<i, yend>>] =
                      interp(At(f, i, yend - 2, oob), At(f, i, yend - 1, oob),
                             At(f, i, yend, oob), At(f, i, yend + 1, oob))]
              ELSE r1,
            LAMBDA r2 :
              IF hasBranchCutUp(i) THEN ColumnUp(r2, i, firstjup, oob) ELSE r2))

RECURSIVE BranchCutColumns(_, _, _, _, _)
BranchCutColumns(r, f, location, i, oob) ==
  IF i > xend THEN r
  ELSE Let(BranchCutColumn(r, f, location, i, oob),
           LAMBDA t : BranchCutColumns(t, f, location, i + 1, oob))

\* the corner at the origin alone
CornerCells_origin == {p \in Points : p[1] < xstart /\ p[2] < ystart}

\* the four corner guard regions
CornerCells ==
  {p \in Points : (p[1] < xstart \/ p[1] > LocalNx - 1 - xstart)
                  /\ (p[2] < ystart \/ p[2] > LocalNy - 1 - ystart)}

SetCorners(r) ==
  Let(r, LAMBDA t : Tab([p \in Points |-> IF p \in CornerCells THEN NaN ELSE t[p]]))

\* interpolateAndExtrapolate(f, location, extrap_at_branch_cut) for f at floc:
\* [err |-> the exception or "", f |-> the field returned]
interpolateAndExtrapolate(f, floc, location, extrap_at_branch_cut, oob) ==
  Let(f, LAMBDA f0 :
    Let(communicate(interp_to(f0, floc, location, oob)), LAMBDA result :
      Let(ExtrapolateBoundaries(result, f0, location, 1, oob), LAMBDA b :
        IF b.err # "" THEN b
        ELSE [err |-> "",
              f |-> SetCorners(IF extrap_at_branch_cut
                               THEN BranchCutColumns(b.f, f0, location, xstart, oob)
                               ELSE b.f)])))

---------------------------------------------------------------------------
(* interpXLOWToXYCorner                                                    *)

\* ASSERT1 of bout/assert.hxx: the condition must hold
ASSERT1(cond) == cond

\* temp_for_xguards(i-1, y) = result(i, y) for i = xend-1 .. LocalNx-1
ShiftInwards(temp, result, y) ==
  Let(<<temp, result>>, LAMBDA t : Tab([p \in Points |->
     IF p[2] = y /\ p[1] + 1 >= xend - 1 /\ p[1] + 1 <= LocalNx - 1
     THEN t[2][<<p[1] + 1, y>>]
     ELSE t[1][p]]))

RECURSIVE ShiftInwardsAll(_, _, _, _)
ShiftInwardsAll(temp, result, b, k) ==
  IF k > Len(b.pts) THEN temp
  ELSE Let(ShiftInwards(temp, result, b.pts[k][2]),
           LAMBDA t : ShiftInwardsAll(t, result, b, k + 1))

\* the y guard cells of columns xend-2 .. xend of the scratch field
RECURSIVE ExtrapolateYGuards(_, _, _)
ExtrapolateYGuards(temp, i, oob) ==
  IF i > xend THEN temp
  ELSE Let(ColumnDown(temp, i, ystart - 1, 0, oob), LAMBDA d :
         Let(ColumnUp(d, i, yend + 1, oob), LAMBDA u :
           ExtrapolateYGuards(u, i + 1, oob)))

\* result(i, y) = temp_for_xguards(i-1, y) for i = xend-1 .. LocalNx-1
CopyOuter(result, temp, y) ==
  Let(<<result, temp>>, LAMBDA t : Tab([p \in Points |->
     IF p[2] = y /\ p[1] >= xend - 1 /\ p[1] <= LocalNx - 1
     THEN t[2][<<p[1] - 1, y>>]
     ELSE t[1][p]]))

RECURSIVE CopyOuterAll(_, _, _, _)
CopyOuterAll(result, temp, b, k) ==
  IF k > Len(b.pts) THEN result
  ELSE Let(CopyOuter(result, temp, b.pts[k][2]),
           LAMBDA t : CopyOuterAll(t, temp, b, k + 1))

\* the outer x boundaries (bx > 0) of getBoundaries()
OuterX == SelectSeq(getBoundaries, LAMBDA b : b.bx > 0)

RECURSIVE ScratchField(_, _, _, _)
ScratchField(temp, result, n, oob) ==
  IF n > Len(OuterX) THEN temp
  ELSE Let(ShiftInwardsAll(temp, result, OuterX[n], 1), LAMBDA s :
         Let(ExtrapolateYGuards(s, xend - 2, oob), LAMBDA t :
           ScratchField(t, result, n + 1, oob)))

RECURSIVE SpliceOuter(_, _, _)
SpliceOuter(result, temp, n) ==
  IF n > Len(OuterX) THEN result
  ELSE Let(CopyOuterAll(result, temp, OuterX[n], 1),
           LAMBDA t : SpliceOuter(t, temp, n + 1))

\* a precondition that asks for a third guard cell
CornerPrecondition_wider == xstart > 2 /\ ystart > 2

\* the precondition of interpXLOWToXYCorner on the mesh
CornerPrecondition == xstart > 1 /\ ystart > 1

\* interpXLOWToXYCorner(f, extrap_at_branch_cut) for f at floc:
\* [err |-> the exception or "", f |-> the field returned (at CELL_CENTRE)]
interpXLOWToXYCorner(f, floc, extrap_at_branch_cut, oob) ==
  IF ~ASSERT1(CornerPrecondition)
  THEN [err |-> "ASSERT1(xstart > 1 && ystart > 1)", f |-> Unset]
  ELSE IF ~ASSERT1(floc = "CELL_XLOW")
  THEN [err |-> "ASSERT1(result.getLocation() == CELL_XLOW)", f |-> Unset]
  ELSE
    Let(f, LAMBDA f0 :
      Let(communicate(ScratchField(ConstField(Zero), f0, 1, oob)), LAMBDA temp_for_xguards :
        Let(interpolateAndExtrapolate(f0, "CELL_CENTRE", "CELL_YLOW",
                                      extrap_at_branch_cut, oob), LAMBDA result :
          Let(interpolateAndExtrapolate(temp_for_xguards, "CELL_CENTRE", "CELL_YLOW",
                                        extrap_at_branch_cut, oob), LAMBDA temp :
            IF result.err # "" THEN [err |-> result.err, f |-> Unset]
            ELSE IF temp.err # "" THEN [err |-> temp.err, f |-> Unset]
            ELSE [err |-> "", f |-> SpliceOuter(result.f, temp.f, 1)]))))

---------------------------------------------------------------------------
(* The Coordinates object                                                  *)

\* new Coordinates(mesh): every field declared, none assigned
NewCoordinates ==
  [location |-> "CELL_CENTRE",
   dx |-> Unset, dy |-> Unset, dz |-> Unset,
   g11 |-> Unset, g22 |-> Unset, g33 |-> Unset,
   g12 |-> Unset, g13 |-> Unset, g23 |-> Unset,
   g_11 |-> Unset, g_22 |-> Unset, g_33 |-> Unset,
   g_12 |-> Unset, g_13 |-> Unset, g_23 |-> Unset,
   J |-> Unset, Bxy |-> Unset,
   G1_11 |-> Unset, G1_22 |-> Unset, G1_33 |-> Unset,
   G1_12 |-> Unset, G1_13 |-> Unset, G1_23 |-> Unset,
   G2_11 |-> Unset, G2_22 |-> Unset, G2_33 |-> Unset,
   G2_12 |-> Unset, G2_13 |-> Unset, G2_23 |-> Unset,
   G3_11 |-> Unset, G3_22 |-> Unset, G3_33 |-> Unset,
   G3_12 |-> Unset, G3_13 |-> Unset, G3_23 |-> Unset,
   G1 |-> Unset, G2 |-> Unset, G3 |-> Unset,
   d1_dx |-> Unset, d1_dy |-> Unset,
   ShiftAngle |-> Unset, zShift |-> Unset,
   ShiftTorsion |-> Unset, IntShiftTorsion |-> Unset]

\* the symmetric matrix <<a11, a22, a33, a12, a13, a23>> at one grid point
MetricAt(c, p) == <<c.g11[p], c.g22[p], c.g33[p], c.g12[p], c.g13[p], c.g23[p]>>
CoMetricAt(c, p) == <<c.g_11[p], c.g_22[p], c.g_33[p], c.g_12[p], c.g_13[p], c.g_23[p]>>

\* a11 a22 a33 + 2 a12 a13 a23 - a11 a23^2 - a22 a13^2 - a33 a12^2
Det(a) ==
  Sub(Sub(Sub(Add(Mul(Mul(a[1], a[2]), a[3]), Mul(Mul(Mul(R(2), a[4]), a[5]), a[6])),
              Mul(Mul(a[1], a[6]), a[6])),
          Mul(Mul(a[2], a[5]), a[5])),
      Mul(Mul(a[3], a[4]), a[4]))

---------------------------------------------------------------------------
(* Metric inversion                                                        *)

\* an inversion that leaves out the division by the determinant
invert3x3_adjugate(a) ==
  [rc |-> 0,
   a |-> <<Sub(Mul(a[2], a[3]), Mul(a[6], a[6])),
           Sub(Mul(a[1], a[3]), Mul(a[5], a[5])),
           Sub(Mul(a[1], a[2]), Mul(a[4], a[4])),
           Sub(Mul(a[6], a[5]), Mul(a[4], a[3])),
           Sub(Mul(a[4], a[6]), Mul(a[2], a[5])),
           Sub(Mul(a[5], a[4]), Mul(a[1], a[6]))>>]

\* invert3x3(a): adjugate over determinant, in place; nonzero return code and
\* the matrix untouched when the matrix is singular
invert3x3(a) ==
  Let(<<Sub(Mul(a[2], a[3]), Mul(a[6], a[6])),
        Sub(Mul(a[6], a[5]), Mul(a[4], a[3])),
        Sub(Mul(a[4], a[6]), Mul(a[2], a[5]))>>, LAMBDA co :
    Let(Add(Add(Mul(a[1], co[1]), Mul(a[4], co[2])), Mul(a[5], co[3])), LAMBDA det :
      IF det = Zero THEN [rc |-> 1, a |-> a]
      ELSE [rc |-> 0,
            a |-> <<Div(co[1], det),
                    Div(Sub(Mul(a[1], a[3]), Mul(a[5], a[5])), det),
                    Div(Sub(Mul(a[1], a[2]), Mul(a[4], a[4])), det),
                    Div(co[2], det),
                    Div(co[3], det),
                    Div(Sub(Mul(a[5], a[4]), Mul(a[1], a[6])), det)>>]))

\* the loop over jx (outer) and jy (inner): the position of the first grid
\* point at which invert3x3 returns nonzero, 0 when there is none
RECURSIVE FirstSingular(_, _)
FirstSingular(inv, i) ==
  IF i > Len(AllSeq) THEN 0
  ELSE IF inv[AllSeq[i]].rc # 0 THEN i
  ELSE FirstSingular(inv, i + 1)

\* the grid points whose inverse was stored before the loop ended
Stored(k) == {AllSeq[i] : i \in 1 .. (IF k = 0 THEN Len(AllSeq) ELSE k - 1)}

\* component n of the inverse where it was stored; elsewhere what the field
\* held before (nothing in particular when it was only just allocated)
PutInverse(prior, inv, stored, n, oob) ==
  Tab([p \in Points |-> IF p \in stored THEN inv[p].a[n]
                        ELSE IF prior = Unset THEN oob ELSE prior[p]])

\* a calcCovariant that stores the 13 and 23 components in each other's field
calcCovariant_swapped(c, oob) ==
  Let(Tab([p \in Points |-> invert3x3(MetricAt(c, p))]), LAMBDA inv :
    Let(FirstSingular(inv, 1), LAMBDA k :
      Let(Stored(k), LAMBDA stored :
        [rc |-> IF k = 0 THEN 0 ELSE 1,
         at |-> IF k = 0 THEN <<>> ELSE <<AllSeq[k]>>,
         c |-> [c EXCEPT !.g_11 = PutInverse(c.g_11, inv, stored, 1, oob),
                         !.g_22 = PutInverse(c.g_22, inv, stored, 2, oob),
                         !.g_33 = PutInverse(c.g_33, inv, stored, 3, oob),
                         !.g_12 = PutInverse(c.g_12, inv, stored, 4, oob),
                         !.g_13 = PutInverse(c.g_13, inv, stored, 6, oob),
                         !.g_23 = PutInverse(c.g_23, inv, stored, 5, oob)]])))

\* calcCovariant(): [rc |-> return code, at |-> the index reported, c |-> object]
calcCovariant(c, oob) ==
  Let(Tab([p \in Points |-> invert3x3(MetricAt(c, p))]), LAMBDA inv :
    Let(FirstSingular(inv, 1), LAMBDA k :
      Let(Stored(k), LAMBDA stored :
        [rc |-> IF k = 0 THEN 0 ELSE 1,
         at |-> IF k = 0 THEN <<>> ELSE <<AllSeq[k]>>,
         c |-> [c EXCEPT !.g_11 = PutInverse(c.g_11, inv, stored, 1, oob),
                         !.g_22 = PutInverse(c.g_22, inv, stored, 2, oob),
                         !.g_33 = PutInverse(c.g_33, inv, stored, 3, oob),
                         !.g_12 = PutInverse(c.g_12, inv, stored, 4, oob),
                         !.g_13 = PutInverse(c.g_13, inv, stored, 5, oob),
                         !.g_23 = PutInverse(c.g_23, inv, stored, 6, oob)]])))

\* calcContravariant(): the same loop from g_ij to g^ij
calcContravariant(c, oob) ==
  Let(Tab([p \in Points |-> invert3x3(CoMetricAt(c, p))]), LAMBDA inv :
    Let(FirstSingular(inv, 1), LAMBDA k :
      Let(Stored(k), LAMBDA stored :
        [rc |-> IF k = 0 THEN 0 ELSE 1,
         at |-> IF k = 0 THEN <<>> ELSE <<AllSeq[k]>>,
         c |-> [c EXCEPT !.g11 = PutInverse(c.g11, inv, stored, 1, oob),
                         !.g22 = PutInverse(c.g22, inv, stored, 2, oob),
                         !.g33 = PutInverse(c.g33, inv, stored, 3, oob),
                         !.g12 = PutInverse(c.g12, inv, stored, 4, oob),
                         !.g13 = PutInverse(c.g13, inv, stored, 5, oob),
                         !.g23 = PutInverse(c.g23, inv, stored, 6, oob)]])))

---------------------------------------------------------------------------
(* jacobian()                                                              *)

JacobianFloor == 10   \* 1.0e-10

\* a jacobian() without the test of the determinant
jacobian_unchecked(c) ==
  Let(Tab([p \in Points |-> Det(MetricAt(c, p))]), LAMBDA g :
    Let([c EXCEPT !.J = FMap1(LAMBDA v : Div(One, Sqrt(v)), g)], LAMBDA c1 :
      IF ~finite(c1.J, NoBndry)
      THEN [err |-> "Jacobian not finite everywhere!", c |-> c1]
      ELSE IF BelowPow10(min(FAbs(c1.J)), JacobianFloor)
      THEN [err |-> "Jacobian becomes very small", c |-> c1]
      ELSE IF Less(min(c1.g_22), Zero)
      THEN [err |-> "g_22 is somewhere less than 0.0", c |-> c1]
      ELSE [err |-> "", c |-> [c1 EXCEPT !.Bxy = FDiv(FSqrt(c1.g_22), c1.J)]]))

\* jacobian(): [err |-> the exception or "", c |-> object]
jacobian(c) ==
  Let(Tab([p \in Points |-> Det(MetricAt(c, p))]), LAMBDA g :
    IF Less(min(g), Zero)
    THEN [err |-> "The determinant of g^ij is somewhere less than 0.0", c |-> c]
    ELSE
      Let([c EXCEPT !.J = FMap1(LAMBDA v : Div(One, Sqrt(v)), g)], LAMBDA c1 :
        IF ~finite(c1.J, NoBndry)
        THEN [err |-> "Jacobian not finite everywhere!", c |-> c1]
        ELSE IF BelowPow10(min(FAbs(c1.J)), JacobianFloor)
        THEN [err |-> "Jacobian becomes very small", c |-> c1]
        ELSE IF Less(min(c1.g_22), Zero)
        THEN [err |-> "g_22 is somewhere less than 0.0", c |-> c1]
        ELSE [err |-> "", c |-> [c1 EXCEPT !.Bxy = FDiv(FSqrt(c1.g_22), c1.J)]]))

---------------------------------------------------------------------------
(* First derivatives                                                       *)

Half == Rat(1, 2)

\* indexDDX(f): the central difference in the x index at the cells of
\* RGN_NOBNDRY; the guard cells of the result are not set
indexDDX(f, oob) ==
  Let(f, LAMBDA t : Tab([p \in Points |->
     IF p \in NoBndry
     THEN Mul(Half, Sub(At(t, p[1] + 1, p[2], oob), At(t, p[1] - 1, p[2], oob)))
     ELSE oob]))

indexDDY(f, oob) ==
  Let(f, LAMBDA t : Tab([p \in Points |->
     IF p \in NoBndry
     THEN Mul(Half, Sub(At(t, p[1], p[2] + 1, oob), At(t, p[1], p[2] - 1, oob)))
     ELSE oob]))

\* Coordinates::DDX, DDY, DDZ of a Field2D, called with the default location
DDX(c, f, oob) == FDiv(indexDDX(f, oob), c.dx)
DDY(c, f, oob) == FDiv(indexDDY(f, oob), c.dy)
DDZ(c, f, oob) == ConstField(Zero)

---------------------------------------------------------------------------
(* geometry(): the connection coefficients                                 *)

G1_11(c, oob) ==
  FAdd(FAdd(FMul(FScale(Half, c.g11), DDX(c, c.g_11, oob)), FMul(c.g12, FSub(DDX(c,
    c.g_12, oob), FScale(Half, DDY(c, c.g_11, oob))))), FMul(c.g13, FSub(DDX(c, c.g_13,
    oob), FScale(Half, DDZ(c, c.g_11, oob)))))

G1_22(c, oob) ==
  FAdd(FAdd(FMul(c.g11, FSub(DDY(c, c.g_12, oob), FScale(Half, DDX(c, c.g_22, oob)))),
    FMul(FScale(Half, c.g12), DDY(c, c.g_22, oob))), FMul(c.g13, FSub(DDY(c, c.g_23,
    oob), FScale(Half, DDZ(c, c.g_22, oob)))))

G1_33(c, oob) ==
  FAdd(FAdd(FMul(c.g11, FSub(DDZ(c, c.g_13, oob), FScale(Half, DDX(c, c.g_33, oob)))),
    FMul(c.g12, FSub(DDZ(c, c.g_23, oob), FScale(Half, DDY(c, c.g_33, oob))))),
    FMul(FScale(Half, c.g13), DDZ(c, c.g_33, oob)))

G1_12(c, oob) ==
  FAdd(FAdd(FMul(FScale(Half, c.g11), DDY(c, c.g_11, oob)), FMul(FScale(Half, c.g12),
    DDX(c, c.g_22, oob))), FMul(FScale(Half, c.g13), FSub(FAdd(DDY(c, c.g_13, oob),
    DDX(c, c.g_23, oob)), DDZ(c, c.g_12, oob))))

G1_13(c, oob) ==
  FAdd(FAdd(FMul(FScale(Half, c.g11), DDZ(c, c.g_11, oob)), FMul(FScale(Half, c.g12),
    FSub(FAdd(DDZ(c, c.g_12, oob), DDX(c, c.g_23, oob)), DDY(c, c.g_13, oob)))),
    FMul(FScale(Half, c.g13), DDX(c, c.g_33, oob)))

G1_23(c, oob) ==
  FAdd(FAdd(FMul(FScale(Half, c.g11), FSub(FAdd(DDZ(c, c.g_12, oob), DDY(c, c.g_13,
    oob)), DDX(c, c.g_23, oob))), FMul(FScale(Half, c.g12), FSub(FAdd(DDZ(c, c.g_22,
    oob), DDY(c, c.g_23, oob)), DDY(c, c.g_23, oob)))), FMul(FScale(Half, c.g13),
    DDY(c, c.g_33, oob)))

G2_11(c, oob) ==
  FAdd(FAdd(FMul(FScale(Half, c.g12), DDX(c, c.g_11, oob)), FMul(c.g22, FSub(DDX(c,
    c.g_12, oob), FScale(Half, DDY(c, c.g_11, oob))))), FMul(c.g23, FSub(DDX(c, c.g_13,
    oob), FScale(Half, DDZ(c, c.g_11, oob)))))

G2_22(c, oob) ==
  FAdd(FAdd(FMul(c.g12, FSub(DDY(c, c.g_12, oob), FScale(Half, DDX(c, c.g_22, oob)))),
    FMul(FScale(Half, c.g22), DDY(c, c.g_22, oob))), FMul(c.g23, FSub(DDY(c, c.g23,
    oob), FScale(Half, DDZ(c, c.g_22, oob)))))

G2_33(c, oob) ==
  FAdd(FAdd(FMul(c.g12, FSub(DDZ(c, c.g_13, oob), FScale(Half, DDX(c, c.g_33, oob)))),
    FMul(c.g22, FSub(DDZ(c, c.g_23, oob), FScale(Half, DDY(c, c.g_33, oob))))),
    FMul(FScale(Half, c.g23), DDZ(c, c.g_33, oob)))

G2_12(c, oob) ==
  FAdd(FAdd(FMul(FScale(Half, c.g12), DDY(c, c.g_11, oob)), FMul(FScale(Half, c.g22),
    DDX(c, c.g_22, oob))), FMul(FScale(Half, c.g23), FSub(FAdd(DDY(c, c.g_13, oob),
    DDX(c, c.g_23, oob)), DDZ(c, c.g_12, oob))))

G2_13(c, oob) ==
  FAdd(FAdd(FMul(FScale(Half, c.g12), FSub(FAdd(DDZ(c, c.g_11, oob), DDX(c, c.g_13,
    oob)), DDX(c, c.g_13, oob))), FMul(FScale(Half, c.g22), FSub(FAdd(DDZ(c, c.g_12,
    oob), DDX(c, c.g_23, oob)), DDY(c, c.g_13, oob)))), FMul(FScale(Half, c.g23),
    DDX(c, c.g_33, oob)))

G2_23(c, oob) ==
  FAdd(FAdd(FMul(FScale(Half, c.g12), FSub(FAdd(DDZ(c, c.g_12, oob), DDY(c, c.g_13,
    oob)), DDX(c, c.g_23, oob))), FMul(FScale(Half, c.g22), DDZ(c, c.g_22, oob))),
    FMul(FScale(Half, c.g23), DDY(c, c.g_33, oob)))

G3_11(c, oob) ==
  FAdd(FAdd(FMul(FScale(Half, c.g13), DDX(c, c.g_11, oob)), FMul(c.g23, FSub(DDX(c,
    c.g_12, oob), FScale(Half, DDY(c, c.g_11, oob))))), FMul(c.g33, FSub(DDX(c, c.g_13,
    oob), FScale(Half, DDZ(c, c.g_11, oob)))))

G3_22(c, oob) ==
  FAdd(FAdd(FMul(c.g13, FSub(DDY(c, c.g_12, oob), FScale(Half, DDX(c, c.g_22, oob)))),
    FMul(FScale(Half, c.g23), DDY(c, c.g_22, oob))), FMul(c.g33, FSub(DDY(c, c.g_23,
    oob), FScale(Half, DDZ(c, c.g_22, oob)))))

G3_33(c, oob) ==
  FAdd(FAdd(FMul(c.g13, FSub(DDZ(c, c.g_13, oob), FScale(Half, DDX(c, c.g_33, oob)))),
    FMul(c.g23, FSub(DDZ(c, c.g_23, oob), FScale(Half, DDY(c, c.g_33, oob))))),
    FMul(FScale(Half, c.g33), DDZ(c, c.g_33, oob)))

G3_12(c, oob) ==
  FAdd(FAdd(FMul(FScale(Half, c.g13), DDY(c, c.g_11, oob)), FMul(FScale(Half, c.g23),
    DDX(c, c.g_22, oob))), FMul(FScale(Half, c.g33), FSub(FAdd(DDY(c, c.g_13, oob),
    DDX(c, c.g_23, oob)), DDZ(c, c.g_12, oob))))

G3_13(c, oob) ==
  FAdd(FAdd(FMul(FScale(Half, c.g13), DDZ(c, c.g_11, oob)), FMul(FScale(Half, c.g23),
    FSub(FAdd(DDZ(c, c.g_12, oob), DDX(c, c.g_23, oob)), DDY(c, c.g_13, oob)))),
    FMul(FScale(Half, c.g33), DDX(c, c.g_33, oob)))

G3_23(c, oob) ==
  FAdd(FAdd(FMul(FScale(Half, c.g13), FSub(FAdd(DDZ(c, c.g_12, oob), DDY(c, c.g_13,
    oob)), DDX(c, c.g_23, oob))), FMul(FScale(Half, c.g23), DDZ(c, c.g_22, oob))),
    FMul(FScale(Half, c.g33), DDY(c, c.g_33, oob)))

\* a G1 made of the products themselves, not of their derivatives
G1_underived(c, oob) ==
  FDiv(FAdd(FAdd(FMul(c.J, c.g11), FMul(c.J, c.g12)), FMul(c.J, c.g13)), c.J)

G1(c, oob) ==
  FDiv(FAdd(FAdd(DDX(c, FMul(c.J, c.g11), oob), DDY(c, FMul(c.J, c.g12), oob)), DDZ(c,
    FMul(c.J, c.g13), oob)), c.J)

G2(c, oob) ==
  FDiv(FAdd(FAdd(DDX(c, FMul(c.J, c.g12), oob), DDY(c, FMul(c.J, c.g22), oob)), DDZ(c,
    FMul(c.J, c.g23), oob)), c.J)

G3(c, oob) ==
  FDiv(FAdd(FAdd(DDX(c, FMul(c.J, c.g13), oob), DDY(c, FMul(c.J, c.g23), oob)), DDZ(c,
    FMul(c.J, c.g33), oob)), c.J)

---------------------------------------------------------------------------
(* geometry()                                                              *)

SpacingFloor == 8   \* 1e-8

\* the checks that open geometry(): the first exception raised, or ""
\* the checks of geometry() without the floor on the spacings
GeometryChecks_no_floor(c) ==
  IF ~finite(c.g11, NoBndry) \/ ~finite(c.g22, NoBndry) \/ ~finite(c.g33, NoBndry)
  THEN "Diagonal metrics are not finite!"
  ELSE IF LessEq(min(c.g11), Zero) \/ LessEq(min(c.g22), Zero) \/ LessEq(min(c.g33), Zero)
  THEN "Diagonal metrics are negative!"
  ELSE ""

GeometryChecks(c) ==
  IF BelowPow10(min(FAbs(c.dx)), SpacingFloor) THEN "dx magnitude less than 1e-8"
  ELSE IF BelowPow10(min(FAbs(c.dy)), SpacingFloor) THEN "dy magnitude less than 1e-8"
  ELSE IF BelowPow10(AbsR(c.dz), SpacingFloor) THEN "dz magnitude less than 1e-8"
  ELSE IF ~finite(c.g11, NoBndry) \/ ~finite(c.g22, NoBndry) \/ ~finite(c.g33, NoBndry)
  THEN "Diagonal metrics are not finite!"
  ELSE IF LessEq(min(c.g11), Zero) \/ LessEq(min(c.g22), Zero) \/ LessEq(min(c.g33), Zero)
  THEN "Diagonal metrics are negative!"
  ELSE IF ~finite(c.g12, NoBndry) \/ ~finite(c.g13, NoBndry) \/ ~finite(c.g23, NoBndry)
  THEN "Off-diagonal metrics are not finite!"
  ELSE IF ~finite(c.g_11, NoBndry) \/ ~finite(c.g_22, NoBndry) \/ ~finite(c.g_33, NoBndry)
  THEN "Diagonal g_ij metrics are not finite!"
  ELSE IF LessEq(min(c.g_11), Zero) \/ LessEq(min(c.g_22), Zero) \/ LessEq(min(c.g_33), Zero)
  THEN "Diagonal g_ij metrics are negative!"
  ELSE IF ~finite(c.g_12, NoBndry) \/ ~finite(c.g_13, NoBndry) \/ ~finite(c.g_23, NoBndry)
  THEN "Off-diagonal g_ij metrics are not finite!"
  ELSE ""

\* the fields of the FieldGroup handed to the halo exchange, in order
FieldGroup ==
  <<"G1_11", "G1_22", "G1_33", "G1_12", "G1_13", "G1_23",
    "G2_11", "G2_22", "G2_33", "G2_12", "G2_13", "G2_23",
    "G3_11", "G3_22", "G3_33", "G3_12", "G3_13", "G3_23",
    "G1", "G2", "G3">>

\* the assignments of the 18 connection coefficients, then of G1, G2, G3
Christoffel(c, oob) ==
  [c EXCEPT !.G1_11 = G1_11(c, oob), !.G1_22 = G1_22(c, oob), !.G1_33 = G1_33(c, oob),
            !.G1_12 = G1_12(c, oob), !.G1_13 = G1_13(c, oob), !.G1_23 = G1_23(c, oob),
            !.G2_11 = G2_11(c, oob), !.G2_22 = G2_22(c, oob), !.G2_33 = G2_33(c, oob),
            !.G2_12 = G2_12(c, oob), !.G2_13 = G2_13(c, oob), !.G2_23 = G2_23(c, oob),
            !.G3_11 = G3_11(c, oob), !.G3_22 = G3_22(c, oob), !.G3_33 = G3_33(c, oob),
            !.G3_12 = G3_12(c, oob), !.G3_13 = G3_13(c, oob), !.G3_23 = G3_23(c, oob),
            !.G1 = G1(c, oob), !.G2 = G2(c, oob), !.G3 = G3(c, oob)]

\* localmesh->communicate(com): every field of the group exchanged
RECURSIVE CommunicateGroup(_, _)
CommunicateGroup(c, n) ==
  IF n > Len(FieldGroup) THEN c
  ELSE Let([c EXCEPT ![FieldGroup[n]] = communicate(c[FieldGroup[n]])],
           LAMBDA t : CommunicateGroup(t, n + 1))

\* corrections that combine a supplied d2x, d2y without the change of sign
NonUniform_unsigned(c, d2x, d2y, oob) ==
  [c EXCEPT !.d1_dx = IF d2x = Unset THEN indexDDX(FMap1(Inv, c.dx), oob)
                      ELSE FDiv(d2x, FMul(c.dx, c.dx)),
            !.d1_dy = IF d2y = Unset THEN indexDDY(FMap1(Inv, c.dy), oob)
                      ELSE FDiv(d2y, FMul(c.dy, c.dy))]

\* the corrections for non-uniform meshes, from d2x, d2y of the grid source
\* when it has them and from dx, dy when it has not
NonUniform(c, d2x, d2y, oob) ==
  [c EXCEPT !.d1_dx = IF d2x = Unset THEN indexDDX(FMap1(Inv, c.dx), oob)
                      ELSE FDiv(FMap1(Neg, d2x), FMul(c.dx, c.dx)),
            !.d1_dy = IF d2y = Unset THEN indexDDY(FMap1(Inv, c.dy), oob)
                      ELSE FDiv(FMap1(Neg, d2y), FMul(c.dy, c.dy))]

\* geometry(): [err |-> the exception or "", c |-> object,
\*              ncomm |-> the number of fields handed to the halo exchange]
geometry(c, d2x, d2y, oob) ==
  Let(GeometryChecks(c), LAMBDA e :
    IF e # "" THEN [err |-> e, c |-> c, ncomm |-> 0]
    ELSE Let(Christoffel(c, oob), LAMBDA c1 :
           Let(CommunicateGroup(c1, 1), LAMBDA c2 :
             [err |-> "", c |-> NonUniform(c2, d2x, d2y, oob),
              ncomm |-> Len(FieldGroup)])))

---------------------------------------------------------------------------
(* What a construction reads: the grid source of the mesh, or the fields   *)
(* of the Coordinates it interpolates from (public, so set by any caller)  *)

MaxGuard == 2     \* guard widths MXG, MYG range over 1 .. MaxGuard
MaxN == 2         \* interior sizes range over 1 .. MaxN

Meshes ==
  [MXG : 1 .. MaxGuard, MYG : 1 .. MaxGuard, nx : 1 .. MaxN, ny : 1 .. MaxN,
   core : {{}}]

Kinds ==
  { [entry |-> "getCoordinates", loc |-> "CELL_CENTRE"],
    [entry |-> "getCoordinatesStaggered", loc |-> "CELL_XLOW"],
    [entry |-> "getCoordinatesStaggered", loc |-> "CELL_YLOW"],
    [entry |-> "getCoordinatesXYCorner", loc |-> "CELL_CENTRE"] }

\* a spacing below the floor of geometry() and not zero
TinySpacing == Rat(1, 200000000)

\* what an unset or out-of-bounds cell may hold
Garbage == {R(7), NaN}

\* the contravariant metric <<g11, g22, g33, g12, g13, g23>> of a source
MetricProfile(m, p) ==
  CASE m = "identity" -> <<One, One, One, Zero, Zero, Zero>>
    [] m = "stretched" ->
         <<IF p[1] % 2 = 0 THEN R(4) ELSE One, One, One, Zero, Zero, Zero>>
    [] m = "sheared" ->
         <<One, One, One, Zero, Zero,
           IF p[2] % 3 = 0 THEN Zero ELSE IF p[2] % 3 = 1 THEN Rat(3, 5) ELSE Rat(4, 5)>>
    [] m = "singular" ->
         <<One, One, One, IF p \in {<<1, 2>>, <<2, 1>>} THEN One ELSE Zero, Zero, Zero>>
    [] m = "degenerate" -> <<One, One, One, One, Zero, Zero>>
    [] m = "negdet" ->
         <<One, One, One, IF p = <<xstart, ystart>> THEN R(2) ELSE Zero, Zero, Zero>>
    [] m = "negdetguard" ->
         <<One, One, One, IF p = <<0, ystart>> THEN R(2) ELSE Zero, Zero, Zero>>
    [] m = "negdiag" ->
         <<IF p = <<xstart, ystart>> THEN R(-1) ELSE One, One, One, Zero, Zero, Zero>>
    [] m = "nan" ->
         <<One, One, One, IF p = <<xstart, ystart>> THEN NaN ELSE Zero, Zero, Zero>>

\* the covariant components the grid source has: none, one, or all six
CovariantProfile(v, n) ==
  CASE v = "none" -> Unset
    [] v = "some" -> IF n = 1 THEN ConstField(R(2)) ELSE Unset
    [] v = "all" -> ConstField(IF n <= 3 THEN One ELSE Zero)
    [] v = "allwrong" -> ConstField(IF n = 2 THEN R(4) ELSE IF n <= 3 THEN One ELSE Zero)
    [] v = "allsingular" -> ConstField(IF n <= 4 THEN One ELSE Zero)

SpacingProfile(v, n) ==
  CASE v = "unit" -> ConstField(One)
    [] v = "two" -> ConstField(IF n = 1 THEN R(2) ELSE One)
    [] v = "tinydx" -> ConstField(IF n = 1 THEN TinySpacing ELSE One)
    [] v = "tinydy" -> ConstField(IF n = 2 THEN TinySpacing ELSE One)
    [] v = "zerodx" -> ConstField(IF n = 1 THEN Zero ELSE One)
    [] v = "zerody" -> ConstField(IF n = 2 THEN Zero ELSE One)
    [] v = "tinydz" -> ConstField(One)
    [] v = "missing" -> Unset

JacobianProfile(v) ==
  CASE v = "none" -> Unset
    [] v = "zero" -> Tab([p \in Points |-> IF p = <<xstart, ystart>> THEN Zero ELSE One])
    [] v = "varying" -> Tab([p \in Points |-> IF p[1] % 2 = 0 THEN R(2) ELSE One])

BxyProfile(v) ==
  CASE v = "none" -> Unset
    [] v = "given" -> ConstField(R(3))
    [] v = "nan" -> Tab([p \in Points |-> IF p = <<0, 0>> THEN NaN ELSE One])

Scenario(m, sp, cov, j, b, tw) ==
  [metric |-> m, spacing |-> sp, cov |-> cov, J |-> j, Bxy |-> b, twist |-> tw]

\* the sources every entry point is run on
CommonScenarios ==
  {Scenario(m, "unit", "none", "none", "none", FALSE) :
     m \in {"identity", "degenerate", "negdet", "negdiag", "nan"}}
  \cup {Scenario("identity", sp, "none", "none", "none", FALSE) : sp \in {"zerodx", "tinydz"}}
  \cup {Scenario("stretched", "two", "none", "none", "none", FALSE),
        Scenario("degenerate", "zerodx", "none", "none", "none", FALSE),
        Scenario("identity", "unit", "none", "none", "none", TRUE)}

\* the sources only getCoordinates is run on
GridScenarios ==
  {Scenario(m, "unit", "none", "none", "none", FALSE) :
     m \in {"sheared", "singular", "negdetguard"}}
  \cup {Scenario("identity", "unit", cov, "none", "none", FALSE) :
     cov \in {"some", "all", "allwrong", "allsingular"}}
  \cup {Scenario("identity", "unit", "none", j, "none", FALSE) : j \in {"zero", "varying"}}
  \cup {Scenario("identity", "unit", "none", "none", b, FALSE) : b \in {"given", "nan"}}
  \cup {Scenario("identity", sp, "none", "none", "none", FALSE) : sp \in {"tinydx", "tinydy", "zerody", "missing"}}

Scenarios(k) ==
  IF k.entry = "getCoordinates" THEN CommonScenarios \cup GridScenarios
  ELSE CommonScenarios

\* the fields a scenario puts in the source; Unset: the source has no such field
Source(sc, k) ==
  [loc |-> IF k.entry = "getCoordinatesXYCorner" THEN "CELL_XLOW" ELSE "CELL_CENTRE",
   dx |-> SpacingProfile(sc.spacing, 1),
   dy |-> SpacingProfile(sc.spacing, 2),
   dz |-> IF sc.spacing = "tinydz" THEN TinySpacing ELSE One,
   g11 |-> Tab([p \in Points |-> MetricProfile(sc.metric, p)[1]]),
   g22 |-> Tab([p \in Points |-> MetricProfile(sc.metric, p)[2]]),
   g33 |-> Tab([p \in Points |-> MetricProfile(sc.metric, p)[3]]),
   g12 |-> Tab([p \in Points |-> MetricProfile(sc.metric, p)[4]]),
   g13 |-> Tab([p \in Points |-> MetricProfile(sc.metric, p)[5]]),
   g23 |-> Tab([p \in Points |-> MetricProfile(sc.metric, p)[6]]),
   g_11 |-> CovariantProfile(sc.cov, 1), g_22 |-> CovariantProfile(sc.cov, 2),
   g_33 |-> CovariantProfile(sc.cov, 3), g_12 |-> CovariantProfile(sc.cov, 4),
   g_13 |-> CovariantProfile(sc.cov, 5), g_23 |-> CovariantProfile(sc.cov, 6),
   J |-> JacobianProfile(sc.J),
   Bxy |-> BxyProfile(sc.Bxy),
   d2x |-> Unset, d2y |-> Unset,
   ShiftAngle |-> IF sc.twist THEN [x \in 0 .. LocalNx - 1 |-> R(x)] ELSE Unset,
   zShift |-> IF sc.twist THEN Tab([p \in Points |-> R(p[2])]) ELSE ConstField(Zero),
   ShiftTorsion |-> IF sc.twist THEN ConstField(One)
                    ELSE IF k.entry = "getCoordinates" THEN Unset ELSE ConstField(Zero),
   IntShiftTorsion |-> IF sc.twist THEN ConstField(One)
                       ELSE IF k.entry = "getCoordinates" THEN Unset ELSE ConstField(Zero),
   IncIntShear |-> sc.twist]

---------------------------------------------------------------------------
(* The steps of the construction entry points                              *)

\* the construction steps of an entry point, in program order
Program(k) ==
  IF k.entry = "getCoordinates"
  THEN <<"read", "check", "covariant", "jacobian", "load", "geometry", "finish">>
  ELSE <<"interpolate", "check", "covariant", "jacobian", "geometry", "finish">>

\* the step after step n of the entry point; "done": the entry point returns
Successor(k, n) ==
  LET i == CHOOSE j \in 1 .. Len(Program(k)) : Program(k)[j] = n
  IN  IF i = Len(Program(k)) THEN "done" ELSE Program(k)[i + 1]

\* a construction that carries on after an exception
After_continue(e, next) == next

\* throw BoutException(e) leaves the entry point; without one the next step runs
After(e, next) == IF e # "" THEN "failed" ELSE next

\* one construction step has run: it raised e or completed, and left c
Ran(n, e, c) ==
  /\ steps' = Append(steps, [step |-> n, err |-> e])
  /\ err' = e
  /\ pc' = After(e, Successor(kind, n))
  /\ res' = c

\* getCoordinates: dx, dy, dz and the contravariant metric from the grid source
ReadSource(c, s) ==
  [c EXCEPT !.dx = IF s.dx = Unset THEN ConstField(One) ELSE s.dx,
            !.dy = IF s.dy = Unset THEN ConstField(One) ELSE s.dy,
            !.dz = s.dz,
            !.g11 = s.g11, !.g22 = s.g22, !.g33 = s.g33,
            !.g12 = s.g12, !.g13 = s.g13, !.g23 = s.g23]

\* "Check input metrics" of getCoordinates: finite() over the whole array
CheckMetrics(c) ==
  IF ~finite(c.g11, Points) \/ ~finite(c.g22, Points) \/ ~finite(c.g33, Points)
  THEN "Diagonal metrics are not finite!"
  ELSE IF LessEq(min(c.g11), Zero) \/ LessEq(min(c.g22), Zero) \/ LessEq(min(c.g33), Zero)
  THEN "Diagonal metrics are negative!"
  ELSE IF ~finite(c.g12, Points) \/ ~finite(c.g13, Points) \/ ~finite(c.g23, Points)
  THEN "Off-diagonal metrics are not finite!"
  ELSE ""

\* "Check input metrics" of the staggered and corner builders: RGN_NOBNDRY
CheckInterpolatedMetrics(c) ==
  IF ~finite(c.g11, NoBndry) \/ ~finite(c.g22, NoBndry) \/ ~finite(c.g33, NoBndry)
  THEN "Interpolated diagonal metrics are not finite!"
  ELSE IF LessEq(min(c.g11), Zero) \/ LessEq(min(c.g22), Zero) \/ LessEq(min(c.g33), Zero)
  THEN "Interpolated diagonal metrics are negative!"
  ELSE IF ~finite(c.g12, NoBndry) \/ ~finite(c.g13, NoBndry) \/ ~finite(c.g23, NoBndry)
  THEN "Interpolated off-diagonal metrics are not finite!"
  ELSE ""

\* sourceHasVar for the six covariant components
CovariantNames == <<"g_11", "g_22", "g_33", "g_12", "g_13", "g_23">>
HasAnyCovariant(s) == \E n \in 1 .. 6 : s[CovariantNames[n]] # Unset
HasAllCovariant(s) == \A n \in 1 .. 6 : s[CovariantNames[n]] # Unset

\* "Find covariant metric components" of getCoordinates
LoadCovariant(c, s) ==
  [c EXCEPT !.g_11 = s.g_11, !.g_22 = s.g_22, !.g_33 = s.g_33,
            !.g_12 = s.g_12, !.g_13 = s.g_13, !.g_23 = s.g_23]

\* "Attempt to read J from the grid file", then Bxy:
\* [err |-> the exception or "", c |-> object]
LoadJacobian(c, s) ==
  Let(IF s.J = Unset THEN c
      ELSE Let([c EXCEPT !.J = s.J], LAMBDA t :
             [t EXCEPT !.Bxy = FDiv(FSqrt(t.g_22), t.J)]), LAMBDA c1 :
    IF s.Bxy = Unset THEN [err |-> "", c |-> c1]
    ELSE Let([c1 EXCEPT !.Bxy = s.Bxy], LAMBDA c2 :
           [err |-> IF ~finite(c2.Bxy, Points) THEN "Bxy not finite everywhere!" ELSE "",
            c |-> c2]))

\* a correction that adds the angle below the cut as well
ShiftCorrection_added(z, sa) ==
  IF sa = Unset THEN z
  ELSE Let(z, LAMBDA t : Tab([p \in Points |->
         IF hasBranchCutDown(p[1]) /\ p[2] < ystart THEN Add(t[p], sa[p[1]])
         ELSE IF hasBranchCutUp(p[1]) /\ p[2] > yend THEN Add(t[p], sa[p[1]])
         ELSE t[p]]))

\* "Correct for discontinuity at branch-cut": zShift in the y guard cells
ShiftCorrection(z, sa) ==
  IF sa = Unset THEN z
  ELSE Let(z, LAMBDA t : Tab([p \in Points |->
         IF hasBranchCutDown(p[1]) /\ p[2] < ystart THEN Sub(t[p], sa[p[1]])
         ELSE IF hasBranchCutUp(p[1]) /\ p[2] > yend THEN Add(t[p], sa[p[1]])
         ELSE t[p]]))

\* the end of getCoordinates: ShiftTorsion, ShiftAngle, zShift, IntShiftTorsion
FinishFromSource(c, s) ==
  [c EXCEPT !.ShiftTorsion = IF s.ShiftTorsion = Unset THEN ConstField(Zero)
                             ELSE s.ShiftTorsion,
            !.ShiftAngle = s.ShiftAngle,
            !.zShift = ShiftCorrection(communicate(s.zShift), s.ShiftAngle),
            !.IntShiftTorsion = IF ~s.IncIntShear THEN c.IntShiftTorsion
                                ELSE IF s.IntShiftTorsion = Unset THEN ConstField(Zero)
                                ELSE s.IntShiftTorsion]

\* the fields the staggered and corner builders interpolate first, in order
InterpolatedNames == <<"dx", "dy", "g11", "g22", "g33", "g12", "g13", "g23", "zShift">>

\* a builder that extrapolates zShift at the branch cut as well
ExtrapolatedAtCut_shift(n) == IF n \in 3 .. 9 THEN hasBranchCut ELSE FALSE

\* whether the field is extrapolated at the branch cut: the metric components
ExtrapolatedAtCut(n) == IF n \in 3 .. 8 THEN hasBranchCut ELSE FALSE

\* the position of the first interpolation that raised, 0 when none did
RECURSIVE FirstRaised(_, _)
FirstRaised(r, n) ==
  IF n > Len(r) THEN 0
  ELSE IF r[n].err # "" THEN n
  ELSE FirstRaised(r, n + 1)

\* ShiftAngle of getCoordinatesStaggered: interpolated in x for CELL_XLOW
StaggeredShiftAngle(sa, loc, oob) ==
  IF sa = Unset THEN Unset
  ELSE IF loc = "CELL_XLOW"
  THEN [x \in 0 .. LocalNx - 1 |->
          IF x >= xstart /\ x <= xend
          THEN interp(IF x - 2 >= 0 THEN sa[x - 2] ELSE oob, sa[x - 1], sa[x],
                      IF x + 1 < LocalNx THEN sa[x + 1] ELSE oob)
          ELSE Zero]
  ELSE sa

\* the interpolations that open getCoordinatesStaggered (Interp is
\* interpolateAndExtrapolate) and getCoordinatesXYCorner (Interp is
\* interpXLOWToXYCorner): [err |-> the exception or "", c |-> object]
InterpolateFields(c, s, k, Interp(_, _), oob) ==
  Let([n \in 1 .. Len(InterpolatedNames) |->
         Interp(s[InterpolatedNames[n]], ExtrapolatedAtCut(n))], LAMBDA r :
    Let(FirstRaised(r, 1), LAMBDA first :
      LET assigned(n) == first = 0 \/ n < first
          sa == IF k.entry = "getCoordinatesXYCorner" THEN s.ShiftAngle
                ELSE StaggeredShiftAngle(s.ShiftAngle, k.loc, oob)
      IN  [err |-> IF first = 0 THEN "" ELSE r[first].err,
           c |-> [c EXCEPT
                    !.location = k.loc,
                    !.dx = IF assigned(1) THEN r[1].f ELSE @,
                    !.dy = IF assigned(2) THEN r[2].f ELSE @,
                    !.dz = IF assigned(2) THEN s.dz ELSE @,
                    !.g11 = IF assigned(3) THEN r[3].f ELSE @,
                    !.g22 = IF assigned(4) THEN r[4].f ELSE @,
                    !.g33 = IF assigned(5) THEN r[5].f ELSE @,
                    !.g12 = IF assigned(6) THEN r[6].f ELSE @,
                    !.g13 = IF assigned(7) THEN r[7].f ELSE @,
                    !.g23 = IF assigned(8) THEN r[8].f ELSE @,
                    !.ShiftAngle = IF assigned(8) THEN sa ELSE @,
                    !.zShift = IF assigned(9)
                               THEN ShiftCorrection(communicate(r[9].f), sa)
                               ELSE @]]))

\* the end of the staggered and corner builders: ShiftTorsion, IntShiftTorsion
FinishInterpolated(c, s, k, Interp(_, _)) ==
  Let(<<Interp(s.ShiftTorsion, k.entry = "getCoordinatesXYCorner" /\ hasBranchCut),
        IF s.IncIntShear
        THEN Interp(s.IntShiftTorsion, k.entry = "getCoordinatesStaggered")
        ELSE [err |-> "", f |-> c.IntShiftTorsion]>>, LAMBDA r :
    [err |-> IF r[1].err # "" THEN r[1].err ELSE r[2].err,
     c |-> [c EXCEPT !.ShiftTorsion = IF r[1].err = "" THEN r[1].f ELSE @,
                     !.IntShiftTorsion = IF r[1].err = "" /\ r[2].err = ""
                                         THEN r[2].f ELSE @]])

---------------------------------------------------------------------------
(* The construction entry points, step by step                             *)

IsBase == kind.entry = "getCoordinates"
IsStaggered == kind.entry = "getCoordinatesStaggered"
IsCorner == kind.entry = "getCoordinatesXYCorner"

Init ==
  /\ mesh \in Meshes
  /\ kind \in Kinds
  /\ \E sc \in Scenarios(kind) : src = Source(sc, kind)
  /\ res = NewCoordinates
  /\ pc = Program(kind)[1]
  /\ err = ""
  /\ steps = <<>>
  /\ report = <<>>
  /\ ncomm = 0
  /\ call = <<>>

\* getCoordinates, lines 214-257
Read ==
  /\ pc = "read"
  /\ Ran("read", "", ReadSource(res, src))
  /\ UNCHANGED <<mesh, kind, src, report, ncomm, call>>

\* getCoordinatesStaggered, lines 394-447
Interpolate ==
  /\ pc = "interpolate" /\ IsStaggered
  /\ \E oob \in Garbage :
       \E r \in {InterpolateFields(res, src, kind,
                   LAMBDA f, e : interpolateAndExtrapolate(f, src.loc, kind.loc, e, oob),
                   oob)} :
         Ran("interpolate", r.err, r.c)
  /\ UNCHANGED <<mesh, kind, src, report, ncomm, call>>

\* getCoordinatesXYCorner, lines 491-538
InterpolateCorner ==
  /\ pc = "interpolate" /\ IsCorner
  /\ \E oob \in Garbage :
       \E r \in {InterpolateFields(res, src, kind,
                   LAMBDA f, e : interpXLOWToXYCorner(f, src.loc, e, oob), oob)} :
         Ran("interpolate", r.err, r.c)
  /\ UNCHANGED <<mesh, kind, src, report, ncomm, call>>

\* "Check input metrics" of each entry point
Check ==
  /\ pc = "check"
  /\ Ran("check", IF IsBase THEN CheckMetrics(res) ELSE CheckInterpolatedMetrics(res), res)
  /\ UNCHANGED <<mesh, kind, src, report, ncomm, call>>

\* the call of calcCovariant by an entry point
CallCalcCovariant ==
  \E oob \in Garbage :
    \E r \in {calcCovariant(res, oob)} :
      /\ Ran("covariant", IF r.rc # 0 THEN "Error in calcCovariant call" ELSE "", r.c)
      /\ report' = report \o r.at

\* a "Find covariant metric components" that takes them from the source
\* whenever it has all six, in every entry point
Covariant_copied ==
  /\ pc = "covariant"
  /\ IF HasAnyCovariant(src)
     THEN IF HasAllCovariant(src)
          THEN Ran("covariant", "", LoadCovariant(res, src)) /\ report' = report
          ELSE CallCalcCovariant
     ELSE CallCalcCovariant
  /\ UNCHANGED <<mesh, kind, src, ncomm, call>>

\* "Find covariant metric components": loaded when the grid source of
\* getCoordinates has all six, derived from the contravariant metric otherwise
Covariant ==
  /\ pc = "covariant"
  /\ IF IsBase /\ HasAnyCovariant(src)
     THEN IF HasAllCovariant(src)
          THEN Ran("covariant", "", LoadCovariant(res, src)) /\ report' = report
          ELSE CallCalcCovariant
     ELSE CallCalcCovariant
  /\ UNCHANGED <<mesh, kind, src, ncomm, call>>

\* "Calculate Jacobian and Bxy"
Jacobian ==
  /\ pc = "jacobian"
  /\ \E r \in {jacobian(res)} : Ran("jacobian", r.err, r.c)
  /\ UNCHANGED <<mesh, kind, src, report, ncomm, call>>

\* getCoordinates, lines 308-333
Load ==
  /\ pc = "load"
  /\ \E r \in {LoadJacobian(res, src)} : Ran("load", r.err, r.c)
  /\ UNCHANGED <<mesh, kind, src, report, ncomm, call>>

\* "Calculate Christoffel symbols. Needs communication"
Geometry ==
  /\ pc = "geometry"
  /\ \E oob \in Garbage :
       \E r \in {geometry(res, src.d2x, src.d2y, oob)} :
         /\ Ran("geometry", r.err, r.c)
         /\ ncomm' = r.ncomm
  /\ UNCHANGED <<mesh, kind, src, report, call>>

\* what follows geometry() in each entry point, up to its return
Finish ==
  /\ pc = "finish"
  /\ IF IsBase THEN Ran("finish", "", FinishFromSource(res, src))
     ELSE \E oob \in Garbage :
            \E r \in {IF IsCorner
                      THEN FinishInterpolated(res, src, kind,
                             LAMBDA f, e : interpXLOWToXYCorner(f, src.loc, e, oob))
                      ELSE FinishInterpolated(res, src, kind,
                             LAMBDA f, e : interpolateAndExtrapolate(f, src.loc, kind.loc,
                                                                     e, oob))} :
              Ran("finish", r.err, r.c)
  /\ UNCHANGED <<mesh, kind, src, report, ncomm, call>>

\* a caller of the returned Geometry runs calcContravariant() on it
CallCalcContravariant ==
  /\ pc = "done"
  /\ \E oob \in Garbage :
       \E r \in {calcContravariant(res, oob)} :
         /\ res' = r.c
         /\ report' = report \o r.at
         /\ call' = [op |-> "calcContravariant", rc |-> r.rc]
  /\ pc' = "used"
  /\ UNCHANGED <<mesh, kind, src, err, steps, ncomm>>

Next ==
  \/ Read
  \/ Interpolate
  \/ InterpolateCorner
  \/ Check
  \/ Covariant
  \/ Jacobian
  \/ Load
  \/ Geometry
  \/ Finish
  \/ CallCalcContravariant

Spec == Init /\ [][Next]_vars

---------------------------------------------------------------------------
(* Properties of the connection coefficients                               *)

Last(q) == q[Len(q)]

\* the step that ran last is n
JustRan(n) == steps # <<>> /\ Last(steps).step = n

\* geometry() has run to its end on res: the coefficients are assigned
GeometryCompleted == ncomm > 0 /\ pc \in {"finish", "done", "failed"}

\* the component (i, j) of a symmetric tensor stored as 11 22 33 12 13 23
Component(i, j) ==
  IF i = j THEN i
  ELSE IF {i, j} = {1, 2} THEN 4
  ELSE IF {i, j} = {1, 3} THEN 5
  ELSE 6

\* the partial derivative along index direction i of covariant component
\* (l, j) at an interior point: central difference over the spacing, 0 in z
PartialCo(c, i, l, j, p) ==
  LET f == c[CovariantNames[Component(l, j)]]
  IN  IF i = 1 THEN Div(Mul(Half, Sub(f[<<p[1] + 1, p[2]>>], f[<<p[1] - 1, p[2]>>])), c.dx[p])
      ELSE IF i = 2
      THEN Div(Mul(Half, Sub(f[<<p[1], p[2] + 1>>], f[<<p[1], p[2] - 1>>])), c.dy[p])
      ELSE Zero

\* (1/2) sum_l g^{kl} (d_i g_lj + d_j g_li - d_l g_ij) at an interior point
StandardChristoffel(c, k, i, j, p) ==
  LET term(l) == Mul(MetricAt(c, p)[Component(k, l)],
                     Sub(Add(PartialCo(c, i, l, j, p), PartialCo(c, j, l, i, p)),
                         PartialCo(c, l, i, j, p)))
  IN  Mul(Half, Add(Add(term(1), term(2)), term(3)))

\* the field in which geometry() stores Gk_ij
Stored_Gk_ij(c, k, i, j) == c[FieldGroup[6 * (k - 1) + Component(i, j)]]

\* the stored coefficient is the standard one at every interior point
IsStandard(c, k, i, j) ==
  \A p \in NoBndry : Stored_Gk_ij(c, k, i, j)[p] = StandardChristoffel(c, k, i, j, p)

\* C1: every Gk_ij that geometry() stores equals the standard second-kind
\* Christoffel symbol (1/2) sum_l g^{kl} (d_i g_lj + d_j g_li - d_l g_ij) built
\* from derivatives of the covariant components, G2_22 included (stated at
\* the grid points where the derivatives are computed, the cells of
\* RGN_NOBNDRY, for the Geometry getCoordinates builds)
C1_ChristoffelStandard ==
  (GeometryCompleted /\ IsBase) =>
    \A k \in 1 .. 3 : \A i \in 1 .. 3 : \A j \in i .. 3 : IsStandard(res, k, i, j)

\* the 17 coefficients other than G2_22 are the standard ones
C1_AllButG2_22 ==
  GeometryCompleted =>
    \A k \in 1 .. 3 : \A i \in 1 .. 3 : \A j \in i .. 3 :
      <<k, i, j>> # <<2, 2, 2>> => IsStandard(res, k, i, j)

\* geometry() stored a G2_22 built from the derivative of the contravariant
\* g23 where the standard symbol has the derivative of the covariant g_23
C1_G2_22_Differs == GeometryCompleted /\ ~IsStandard(res, 2, 2, 2)

\* the contravariant metric of c is the identity at every grid point
ContravariantIdentity(c) ==
  \A p \in Points : MetricAt(c, p) = <<One, One, One, Zero, Zero, Zero>>

CovariantIdentity(c) ==
  \A p \in Points : CoMetricAt(c, p) = <<One, One, One, Zero, Zero, Zero>>

\* all 18 Gk_ij and G1, G2, G3 of c are exactly zero at the cells of rgn
ConnectionZero(c, rgn) ==
  \A n \in 1 .. Len(FieldGroup) : \A p \in rgn : c[FieldGroup[n]][p] = Zero

\* the covariant metric and J of the object were derived from its
\* contravariant metric by the entry point, not read from the grid source
DerivedFromMetric == ~(IsBase /\ (HasAllCovariant(src) \/ src.J # Unset))

\* C2: when the contravariant metric is the identity at every grid point, the
\* covariant metric and J are derived from it, and the spacings pass the
\* checks, geometry() leaves all 18 Gk_ij and G1, G2, G3 exactly zero at
\* every grid point that is not a guard cell
C2_FlatSpaceZero ==
  (GeometryCompleted /\ ContravariantIdentity(res) /\ DerivedFromMetric)
    => ConnectionZero(res, NoBndry)

\* C2 as stated: with the identity contravariant metric geometry() leaves all
\* 18 Gk_ij and G1, G2, G3 exactly zero at every grid point
C2_AsStated ==
  (GeometryCompleted /\ ContravariantIdentity(res)) => ConnectionZero(res, Points)

\* getCoordinates ran geometry() on the identity metric it derived g_ij, J from
C2_Witness ==
  /\ GeometryCompleted /\ IsBase /\ ContravariantIdentity(res) /\ DerivedFromMetric
  /\ pc = "done"

---------------------------------------------------------------------------
(* Properties of jacobian()                                                *)

NegativeDet(c, rgn) == \E p \in rgn : Less(Det(MetricAt(c, p)), Zero)

DeterminantError == "The determinant of g^ij is somewhere less than 0.0"

\* C3: jacobian() raises the determinant error whenever det is negative at a
\* grid point that is not a guard cell, and on the identity metric (g^ij and
\* g_ij) it succeeds with J = 1 and Bxy = 1 at every grid point
C3_Jacobian ==
  JustRan("jacobian") =>
    /\ NegativeDet(res, NoBndry) => (pc = "failed" /\ err = DeterminantError)
    /\ (ContravariantIdentity(res) /\ CovariantIdentity(res)) =>
         /\ pc # "failed" /\ err = ""
         /\ \A p \in Points : res.J[p] = One /\ res.Bxy[p] = One

\* C3 as stated: jacobian() raises a fatal error whenever det is negative at
\* any grid point
C3_AsStated ==
  (JustRan("jacobian") /\ NegativeDet(res, Points)) => (pc = "failed" /\ err # "")

\* jacobian() raised on a determinant that is negative at an interior point
C3_Witness ==
  JustRan("jacobian") /\ NegativeDet(res, NoBndry) /\ err = DeterminantError

---------------------------------------------------------------------------
(* Properties of the returned Geometry                                     *)

\* the product of the covariant and the contravariant matrix at p is the
\* identity matrix
IsInverseAt(c, p) ==
  LET a == MetricAt(c, p)
      b == CoMetricAt(c, p)
      A(i, j) == a[Component(i, j)]
      B(i, j) == b[Component(i, j)]
  IN  \A i \in 1 .. 3 : \A j \in 1 .. 3 :
        Add(Add(Mul(B(i, 1), A(1, j)), Mul(B(i, 2), A(2, j))), Mul(B(i, 3), A(3, j)))
          = IF i = j THEN One ELSE Zero

FiniteMetricAt(c, p) == \A n \in 1 .. 6 : IsFinite(MetricAt(c, p)[n])

\* C4: in every Geometry an entry point returns, unless getCoordinates took
\* all six covariant components from the grid source, the covariant tensor is
\* the inverse of the contravariant tensor at every grid point where the
\* contravariant tensor is finite
C4_Inverse ==
  (pc = "done" /\ ~(IsBase /\ HasAllCovariant(src)))
    => \A p \in Points : FiniteMetricAt(res, p) => IsInverseAt(res, p)

\* C4 as stated: in every returned Geometry the covariant tensor is the
\* inverse of the contravariant tensor at every grid point, whatever covariant
\* components the grid source supplies
C4_AsStated == pc = "done" => \A p \in Points : IsInverseAt(res, p)

\* getCoordinates returned a Geometry whose grid source had some but not all
\* covariant components
C4_Witness == pc = "done" /\ IsBase /\ HasAnyCovariant(src) /\ ~HasAllCovariant(src)

\* C5: in every returned Geometry J is finite and |J| >= 1e-10 at every grid
\* point that is not a guard cell, also when J is read from the grid source
C5_JacobianBounded ==
  pc = "done" =>
    \A p \in NoBndry : IsFinite(res.J[p]) /\ ~BelowPow10(res.J[p], JacobianFloor)

\* getCoordinates returned a Geometry whose J, read from the grid source, is
\* zero at a grid point that is not a guard cell
C5_Witness ==
  /\ IsBase /\ pc = "done" /\ src.J # Unset
  /\ \E p \in NoBndry : res.J[p] = Zero

---------------------------------------------------------------------------
(* Properties of the error paths                                           *)

\* the matrix is singular: its determinant, expanded along the first row, is 0
SingularAt(a) ==
  Add(Add(Mul(a[1], Sub(Mul(a[2], a[3]), Mul(a[6], a[6]))),
          Mul(a[4], Sub(Mul(a[6], a[5]), Mul(a[4], a[3])))),
      Mul(a[5], Sub(Mul(a[4], a[6]), Mul(a[2], a[5])))) = Zero

\* (jx, jy) iteration order: jx first, then jy
Before(q, p) == q[1] < p[1] \/ (q[1] = p[1] /\ q[2] < p[2])

\* p is the first grid point of the local array, in (jx, jy) order, at which
\* the matrix M(p) is singular
FirstSingularPoint(M(_), p) ==
  /\ SingularAt(M(p))
  /\ \A q \in Points : Before(q, p) => ~SingularAt(M(q))

\* the entry point called calcCovariant in its "covariant" step
CalledCalcCovariant == JustRan("covariant") /\ ~(IsBase /\ HasAllCovariant(src))

\* C6: when the matrix is singular at a grid point of the local array,
\* calcCovariant and calcContravariant report the first such point in
\* (jx, jy) order and return nonzero, and the entry point that called
\* calcCovariant raises and returns no Geometry
C6_SingularReported ==
  /\ (CalledCalcCovariant /\ \E p \in Points : SingularAt(MetricAt(res, p)))
       => /\ Len(report) = 1
          /\ FirstSingularPoint(LAMBDA q : MetricAt(res, q), report[1])
          /\ pc = "failed" /\ err = "Error in calcCovariant call"
  /\ (pc = "used" /\ \E p \in Points : SingularAt(CoMetricAt(res, p)))
       => /\ call.rc = 1
          /\ report # <<>>
          /\ FirstSingularPoint(LAMBDA q : CoMetricAt(res, q), Last(report))

\* calcCovariant met two singular points and the entry point raised
C6_Witness ==
  /\ CalledCalcCovariant /\ pc = "failed"
  /\ Cardinality({p \in Points : SingularAt(MetricAt(res, p))}) > 1
  /\ report = << <<1, 2>> >>

\* the names of the steps that ran
RECURSIVE StepNames(_)
StepNames(q) == IF q = <<>> THEN <<>> ELSE <<q[1].step>> \o StepNames(Tail(q))

IsPrefix(a, b) == Len(a) <= Len(b) /\ \A i \in 1 .. Len(a) : a[i] = b[i]

\* C7: an entry point either returns a Geometry after all of its steps (the
\* metric checks, the covariant derivation, jacobian(), geometry()) completed,
\* or raises at the first step that meets a fatal condition; no step runs
\* after the one that raised
C7_FirstFatalEnds ==
  /\ IsPrefix(StepNames(steps), Program(kind))
  /\ \A i \in 1 .. Len(steps) - 1 : steps[i].err = ""
  /\ pc = "failed" <=> (steps # <<>> /\ Last(steps).err # "")
  /\ pc = "failed" => err = Last(steps).err
  /\ pc \in {"done", "used"} =>
       /\ StepNames(steps) = Program(kind)
       /\ \A i \in 1 .. Len(steps) : steps[i].err = ""
       /\ err = ""
  /\ pc \notin {"failed", "done", "used"} => pc = Program(kind)[Len(steps) + 1]

\* the staggered builder raised in jacobian(), after three completed steps
C7_Witness ==
  /\ IsStaggered /\ pc = "failed" /\ JustRan("jacobian") /\ Len(steps) = 4
  /\ res.G1_11 = Unset /\ ncomm = 0

SpacingBelowFloor(c) ==
  \/ BelowPow10(min(FAbs(c.dx)), SpacingFloor)
  \/ BelowPow10(min(FAbs(c.dy)), SpacingFloor)
  \/ BelowPow10(AbsR(c.dz), SpacingFloor)

SpacingErrors ==
  {"dx magnitude less than 1e-8", "dy magnitude less than 1e-8",
   "dz magnitude less than 1e-8"}

NothingAssigned(c) ==
  /\ \A n \in 1 .. Len(FieldGroup) : c[FieldGroup[n]] = Unset
  /\ c.d1_dx = Unset /\ c.d1_dy = Unset

\* C8: geometry() invoked with min|dx|, min|dy| or |dz| below 1e-8 raises the
\* spacing error before any connection coefficient is assigned and before the
\* halo exchange; so a staggered construction whose spacing is below 1e-8
\* ends in that error unless one of its earlier steps has raised already
C8_SpacingFloor ==
  /\ (JustRan("geometry") /\ SpacingBelowFloor(res))
       => /\ pc = "failed" /\ err \in SpacingErrors
          /\ NothingAssigned(res) /\ ncomm = 0
  /\ (IsStaggered /\ pc \in {"failed", "done", "used"} /\ res.dx # Unset
        /\ SpacingBelowFloor(res))
       => /\ pc = "failed"
          /\ err \in SpacingErrors \/ Last(steps).step \in {"check", "covariant", "jacobian"}

\* C8 as stated: a staggered construction whose spacing is below 1e-8 ends in
\* the spacing error (on the meshes whose guard cells hold the whole stencil)
C8_AsStated ==
  (IsStaggered /\ pc \in {"failed", "done", "used"} /\ res.dx # Unset
     /\ mesh.MXG >= 2 /\ mesh.MYG >= 2 /\ SpacingBelowFloor(res))
    => (pc = "failed" /\ err \in SpacingErrors)

\* the staggered builder reached geometry() with dx below the floor
C8_Witness ==
  /\ IsStaggered /\ JustRan("geometry") /\ SpacingBelowFloor(res)
  /\ err = "dx magnitude less than 1e-8"

\* the corner builder's first interpolation raised the precondition error
CornerRaised ==
  /\ pc = "failed" /\ err = "ASSERT1(xstart > 1 && ystart > 1)"
  /\ res.dx = Unset /\ res.g11 = Unset

\* C10: the corner builder fails with the precondition error, and produces no
\* field, exactly when the mesh has fewer than 2 guard cells in x or in y
C10_CornerPrecondition ==
  (IsCorner /\ JustRan("interpolate"))
    => (CornerRaised <=> (mesh.MXG < 2 \/ mesh.MYG < 2))

\* C10 as stated: the corner builder fails, and produces no field, whenever
\* the mesh has fewer than 2 interior points in x or in y
C10_AsStated ==
  (IsCorner /\ JustRan("interpolate") /\ (mesh.nx < 2 \/ mesh.ny < 2))
    => (pc = "failed" /\ res.dx = Unset)

\* the corner builder raised on a mesh with one guard cell in y only
C10_Witness == IsCorner /\ CornerRaised /\ mesh.MXG = 2 /\ mesh.MYG = 1

---------------------------------------------------------------------------
(* The location assertions of the operators                                *)

\* ASSERT2 of bout/assert.hxx: enforced when the build has CHECK >= 2
ASSERT2(cond, check) == check < 2 \/ cond

\* the first assertion of a sequence that failed, "" when all passed
RECURSIVE FirstFailed(_)
FirstFailed(q) ==
  IF q = <<>> THEN "" ELSE IF q[1] # "" THEN q[1] ELSE FirstFailed(Tail(q))

Asserted(cond, text) == IF cond THEN "" ELSE text

\* each operator below: the assertion that fails, in program order, when a
\* Geometry c is asked for output location outloc on a field at floc

\* a DDX that takes CELL_DEFAULT for a mismatch
DDX_asserts_own_only(c, loc) ==
  Asserted(ASSERT1(c.location = loc), "location == loc")

DDX_asserts(c, loc) ==
  Asserted(ASSERT1(c.location = loc \/ loc = "CELL_DEFAULT"),
           "location == loc || loc == CELL_DEFAULT")

DDY_asserts(c, loc) ==
  Asserted(ASSERT1(c.location = loc \/ loc = "CELL_DEFAULT"),
           "location == loc || loc == CELL_DEFAULT")

DDZ_asserts(c, loc, sameMesh) ==
  FirstFailed(<<Asserted(ASSERT1(c.location = loc \/ loc = "CELL_DEFAULT"),
                         "location == loc || loc == CELL_DEFAULT"),
                Asserted(ASSERT1(sameMesh), "f.getMesh() == localmesh")>>)

Grad_par2D_asserts(c, outloc, floc) ==
  FirstFailed(<<Asserted(ASSERT1(c.location = outloc
                                 \/ (outloc = "CELL_DEFAULT" /\ c.location = floc)),
                         "location == outloc || (outloc == CELL_DEFAULT && location == var.getLocation())"),
                DDY_asserts(c, outloc)>>)

Grad_par3D_asserts(c, outloc, floc) ==
  Asserted(ASSERT1(c.location = outloc \/ outloc = "CELL_DEFAULT"),
           "location == outloc || outloc == CELL_DEFAULT")

Vpar_Grad_par2D_asserts(c, outloc, floc) ==
  Asserted(ASSERT1(c.location = outloc \/ (outloc = "CELL_DEFAULT" /\ c.location = floc)),
           "location == outloc || (outloc == CELL_DEFAULT && location == f.getLocation())")

Vpar_Grad_par3D_asserts(c, outloc, floc) ==
  Asserted(ASSERT1(c.location = outloc \/ outloc = "CELL_DEFAULT"),
           "location == outloc || outloc == CELL_DEFAULT")

\* Div_par divides f by Bxy at the location of f and calls Grad_par on it
Div_par2D_asserts(c, outloc, floc) ==
  FirstFailed(<<Asserted(ASSERT1(c.location = outloc \/ outloc = "CELL_DEFAULT"),
                         "location == outloc || outloc == CELL_DEFAULT"),
                Grad_par2D_asserts(c, outloc, floc)>>)

Div_par3D_asserts(c, outloc, floc) ==
  FirstFailed(<<Asserted(ASSERT1(c.location = outloc \/ outloc = "CELL_DEFAULT"),
                         "location == outloc || outloc == CELL_DEFAULT"),
                Grad_par3D_asserts(c, outloc, floc)>>)

Grad2_par2_2D_asserts(c, outloc, floc) ==
  FirstFailed(<<Asserted(ASSERT1(c.location = outloc
                                 \/ (outloc = "CELL_DEFAULT" /\ c.location = floc)),
                         "location == outloc || (outloc == CELL_DEFAULT && location == f.getLocation())"),
                DDY_asserts(c, outloc)>>)

\* if (outloc == CELL_DEFAULT) outloc = f.getLocation(), then the assertion
\* resloc is where the derivative operators outside this file put the result
Grad2_par2_3D_asserts(c, outloc, floc, check, resloc) ==
  LET resolved == IF outloc = "CELL_DEFAULT" THEN floc ELSE outloc
  IN  FirstFailed(<<Asserted(ASSERT1(c.location = resolved), "location == outloc"),
                    DDY_asserts(c, resolved),
                    Asserted(ASSERT2(resloc = resolved, check),
                             "result.getLocation() == outloc")>>)

Delp2_2D_asserts(c, outloc, floc) ==
  FirstFailed(<<Asserted(ASSERT1(c.location = outloc \/ outloc = "CELL_DEFAULT"),
                         "location == outloc || outloc == CELL_DEFAULT"),
                DDX_asserts(c, outloc)>>)

\* the result is given the location of f, so the closing ASSERT2 passes
Delp2_3D_asserts(c, outloc, floc, check) ==
  LET resolved == IF outloc = "CELL_DEFAULT" THEN floc ELSE outloc
  IN  FirstFailed(<<Asserted(ASSERT1(c.location = resolved), "location == outloc"),
                    IF GlobalNx = 1 /\ GlobalNz = 1 THEN ""
                    ELSE FirstFailed(<<
                      Asserted(ASSERT2(xstart > 0, check), "localmesh->xstart > 0"),
                      Asserted(ASSERT2(floc = resolved, check),
                               "f.getLocation() == outloc")>>)>>)

Delp2_Perp_asserts(c, outloc, floc, check) ==
  LET resolved == IF outloc = "CELL_DEFAULT" THEN floc ELSE outloc
  IN  FirstFailed(<<Asserted(ASSERT1(c.location = resolved), "location == outloc"),
                    Asserted(ASSERT2(floc = resolved, check), "f.getLocation() == outloc")>>)

Laplace_par2D_asserts(c, outloc, floc) ==
  FirstFailed(<<Asserted(ASSERT1(c.location = outloc \/ outloc = "CELL_DEFAULT"),
                         "location == outloc || outloc == CELL_DEFAULT"),
                DDY_asserts(c, outloc)>>)

Laplace_par3D_asserts(c, outloc, floc) ==
  FirstFailed(<<Asserted(ASSERT1(c.location = outloc \/ outloc = "CELL_DEFAULT"),
                         "location == outloc || outloc == CELL_DEFAULT"),
                DDY_asserts(c, outloc)>>)

Laplace2D_asserts(c, outloc, floc) ==
  FirstFailed(<<Asserted(ASSERT1(c.location = outloc \/ outloc = "CELL_DEFAULT"),
                         "location == outloc || outloc == CELL_DEFAULT"),
                DDX_asserts(c, outloc), DDY_asserts(c, outloc)>>)

Laplace3D_asserts(c, outloc, floc, check, resloc) ==
  FirstFailed(<<Asserted(ASSERT1(c.location = outloc \/ outloc = "CELL_DEFAULT"),
                         "location == outloc || outloc == CELL_DEFAULT"),
                Asserted(ASSERT2(resloc = floc, check),
                         "result.getLocation() == f.getLocation()")>>)

---------------------------------------------------------------------------
(* Calls of the operators on a constructed Geometry.  The assertions read  *)
(* the location tag of the Geometry and the mesh, nothing else of it.      *)

Locations == {"CELL_CENTRE", "CELL_XLOW", "CELL_YLOW", "CELL_ZLOW"}
OutLocs == Locations \cup {"CELL_DEFAULT"}
FieldLocs == {"CELL_CENTRE", "CELL_XLOW", "CELL_YLOW"}
CheckLevels == {1, 2}

InitOps ==
  /\ mesh \in Meshes
  /\ kind \in Kinds
  /\ src = <<>>
  /\ res = [NewCoordinates EXCEPT !.location = kind.loc]
  /\ pc = "done"
  /\ err = ""
  /\ steps = <<>>
  /\ report = <<>>
  /\ ncomm = 0
  /\ call = <<>>

\* one call: what was asked, and the assertion that failed ("" when none)
Called(op, outloc, floc, check, sameMesh, resloc, failed) ==
  /\ pc = "done"
  /\ call' = [op |-> op, outloc |-> outloc, floc |-> floc, check |-> check,
              sameMesh |-> sameMesh, resloc |-> resloc, failed |-> failed]
  /\ pc' = "used"
  /\ UNCHANGED <<mesh, kind, src, res, err, steps, report, ncomm>>

Call_DDX ==
  \E outloc \in OutLocs, floc \in FieldLocs, check \in CheckLevels :
    Called("DDX", outloc, floc, check, TRUE, floc, DDX_asserts(res, outloc))

Call_DDY ==
  \E outloc \in OutLocs, floc \in FieldLocs, check \in CheckLevels :
    Called("DDY", outloc, floc, check, TRUE, floc, DDY_asserts(res, outloc))

Call_Grad_par2D ==
  \E outloc \in OutLocs, floc \in FieldLocs, check \in CheckLevels :
    Called("Grad_par2D", outloc, floc, check, TRUE, floc, Grad_par2D_asserts(res, outloc, floc))

Call_Grad_par3D ==
  \E outloc \in OutLocs, floc \in FieldLocs, check \in CheckLevels :
    Called("Grad_par3D", outloc, floc, check, TRUE, floc, Grad_par3D_asserts(res, outloc, floc))

Call_Vpar_Grad_par2D ==
  \E outloc \in OutLocs, floc \in FieldLocs, check \in CheckLevels :
    Called("Vpar_Grad_par2D", outloc, floc, check, TRUE, floc, Vpar_Grad_par2D_asserts(res, outloc, floc))

Call_Vpar_Grad_par3D ==
  \E outloc \in OutLocs, floc \in FieldLocs, check \in CheckLevels :
    Called("Vpar_Grad_par3D", outloc, floc, check, TRUE, floc, Vpar_Grad_par3D_asserts(res, outloc, floc))

Call_Div_par2D ==
  \E outloc \in OutLocs, floc \in FieldLocs, check \in CheckLevels :
    Called("Div_par2D", outloc, floc, check, TRUE, floc, Div_par2D_asserts(res, outloc, floc))

Call_Div_par3D ==
  \E outloc \in OutLocs, floc \in FieldLocs, check \in CheckLevels :
    Called("Div_par3D", outloc, floc, check, TRUE, floc, Div_par3D_asserts(res, outloc, floc))

Call_Grad2_par2_2D ==
  \E outloc \in OutLocs, floc \in FieldLocs, check \in CheckLevels :
    Called("Grad2_par2_2D", outloc, floc, check, TRUE, floc, Grad2_par2_2D_asserts(res, outloc, floc))

Call_Delp2_2D ==
  \E outloc \in OutLocs, floc \in FieldLocs, check \in CheckLevels :
    Called("Delp2_2D", outloc, floc, check, TRUE, floc, Delp2_2D_asserts(res, outloc, floc))

Call_Laplace_par2D ==
  \E outloc \in OutLocs, floc \in FieldLocs, check \in CheckLevels :
    Called("Laplace_par2D", outloc, floc, check, TRUE, floc, Laplace_par2D_asserts(res, outloc, floc))

Call_Laplace_par3D ==
  \E outloc \in OutLocs, floc \in FieldLocs, check \in CheckLevels :
    Called("Laplace_par3D", outloc, floc, check, TRUE, floc, Laplace_par3D_asserts(res, outloc, floc))

Call_Laplace2D ==
  \E outloc \in OutLocs, floc \in FieldLocs, check \in CheckLevels :
    Called("Laplace2D", outloc, floc, check, TRUE, floc, Laplace2D_asserts(res, outloc, floc))

Call_DDZ ==
  \E outloc \in OutLocs, floc \in FieldLocs, check \in CheckLevels, sameMesh \in BOOLEAN :
    Called("DDZ", outloc, floc, check, sameMesh, floc, DDZ_asserts(res, outloc, sameMesh))

Call_Delp2_3D ==
  \E outloc \in OutLocs, floc \in FieldLocs, check \in CheckLevels :
    Called("Delp2_3D", outloc, floc, check, TRUE, floc, Delp2_3D_asserts(res, outloc, floc, check))

Call_Delp2_Perp ==
  \E outloc \in OutLocs, floc \in FieldLocs, check \in CheckLevels :
    Called("Delp2_Perp", outloc, floc, check, TRUE, floc, Delp2_Perp_asserts(res, outloc, floc, check))

Call_Grad2_par2_3D ==
  \E outloc \in OutLocs, floc \in FieldLocs, check \in CheckLevels, resloc \in FieldLocs :
    Called("Grad2_par2_3D", outloc, floc, check, TRUE, resloc, Grad2_par2_3D_asserts(res, outloc, floc, check, resloc))

Call_Laplace3D ==
  \E outloc \in OutLocs, floc \in FieldLocs, check \in CheckLevels, resloc \in FieldLocs :
    Called("Laplace3D", outloc, floc, check, TRUE, resloc, Laplace3D_asserts(res, outloc, floc, check, resloc))

NextOps ==
  \/ Call_DDX
  \/ Call_DDY
  \/ Call_DDZ
  \/ Call_Grad_par2D
  \/ Call_Grad_par3D
  \/ Call_Vpar_Grad_par2D
  \/ Call_Vpar_Grad_par3D
  \/ Call_Div_par2D
  \/ Call_Div_par3D
  \/ Call_Grad2_par2_2D
  \/ Call_Delp2_2D
  \/ Call_Laplace_par2D
  \/ Call_Laplace_par3D
  \/ Call_Laplace2D
  \/ Call_Delp2_3D
  \/ Call_Delp2_Perp
  \/ Call_Grad2_par2_3D
  \/ Call_Laplace3D

SpecOps == InitOps /\ [][NextOps]_vars

---------------------------------------------------------------------------
(* C9: the locations the operators accept                                  *)

\* operators whose assertion is  location == outloc || outloc == CELL_DEFAULT
LenientOperators ==
  {"DDX", "DDY", "DDZ", "Grad_par3D", "Vpar_Grad_par3D", "Div_par3D", "Delp2_2D",
   "Laplace_par2D", "Laplace_par3D", "Laplace2D", "Laplace3D"}

\* operators for which CELL_DEFAULT stands for the location of the input
\* field, which then has to be the location of the Geometry
FieldBoundOperators ==
  {"Grad_par2D", "Vpar_Grad_par2D", "Div_par2D", "Grad2_par2_2D", "Grad2_par2_3D",
   "Delp2_3D", "Delp2_Perp"}

RequestedOwnOrDefault == call.outloc \in {res.location, "CELL_DEFAULT"}

LocationAccepted ==
  IF call.op \in LenientOperators
  THEN RequestedOwnOrDefault
  ELSE \/ call.outloc = res.location
       \/ call.outloc = "CELL_DEFAULT" /\ call.floc = res.location

\* what the assertions of check level 2 add
LevelTwoAccepted ==
  \/ call.check < 2
  \/ CASE call.op \in {"Delp2_3D", "Delp2_Perp"} -> call.floc = res.location
       [] call.op = "Grad2_par2_3D" -> call.resloc = res.location
       [] call.op = "Laplace3D" -> call.resloc = call.floc
       [] OTHER -> TRUE

---------------------------------------------------------------------------
(* The entry points on meshes with closed field lines: the columns of      *)
(* mesh.core have a branch cut below and above                             *)

\* the inner guard columns and the first interior column closed, or all closed
CoreMeshes ==
  UNION {{[m EXCEPT !.core = 0 .. m.MXG],
          [m EXCEPT !.core = 0 .. (m.nx + 2 * m.MXG - 1)]} : m \in Meshes}

\* an identity metric, with and without the twist-shift data
CoreScenarios ==
  {Scenario("identity", "unit", "none", "none", "none", tw) : tw \in BOOLEAN}

InitCore ==
  /\ mesh \in CoreMeshes
  /\ kind \in Kinds
  /\ \E sc \in CoreScenarios : src = Source(sc, kind)
  /\ res = NewCoordinates
  /\ pc = Program(kind)[1]
  /\ err = ""
  /\ steps = <<>>
  /\ report = <<>>
  /\ ncomm = 0
  /\ call = <<>>

SpecCore == InitCore /\ [][Next]_vars

---------------------------------------------------------------------------
(* C11: the correction of zShift across the branch cut                     *)

\* zShift as the halo exchange left it, before the correction
ExchangedZShift(oob) ==
  IF IsBase THEN communicate(src.zShift)
  ELSE IF IsStaggered
  THEN communicate(interpolateAndExtrapolate(src.zShift, src.loc, kind.loc, FALSE, oob).f)
  ELSE communicate(interpXLOWToXYCorner(src.zShift, src.loc, FALSE, oob).f)

\* the step that sets zShift has just completed
ZShiftSet ==
  \/ IsBase /\ JustRan("finish")
  \/ ~IsBase /\ JustRan("interpolate") /\ err = ""

\* C11: in each of the three builders, after the halo exchange of zShift,
\* every lower y-guard cell of a column with a branch cut below is decreased
\* by exactly ShiftAngle[x], every upper y-guard cell of a column with a
\* branch cut above is increased by exactly ShiftAngle[x], every other cell is
\* unchanged, and nothing is changed when ShiftAngle is empty
C11_ZShiftCorrected ==
  ZShiftSet =>
    \E oob \in Garbage :
      \E z \in {ExchangedZShift(oob)} :
        \A p \in Points :
          res.zShift[p] =
            IF res.ShiftAngle = Unset THEN z[p]
            ELSE IF hasBranchCutDown(p[1]) /\ p[2] < ystart
            THEN Sub(z[p], res.ShiftAngle[p[1]])
            ELSE IF hasBranchCutUp(p[1]) /\ p[2] > yend
            THEN Add(z[p], res.ShiftAngle[p[1]])
            ELSE z[p]

\* a builder changed a lower and an upper guard cell of zShift by a nonzero
\* ShiftAngle, and left a column without branch cut alone
C11_Witness ==
  /\ ZShiftSet /\ res.ShiftAngle # Unset
  /\ \E oob \in Garbage :
       \E z \in {ExchangedZShift(oob)} :
         /\ \E p \in Points : p[2] < ystart /\ IsFinite(z[p]) /\ res.zShift[p] # z[p]
         /\ \E p \in Points : p[2] > yend /\ IsFinite(z[p]) /\ res.zShift[p] # z[p]
         /\ \E p \in Points : ~hasBranchCutDown(p[1]) /\ p[2] < ystart

\* the correction reached zShift when there is no ShiftAngle: nothing changed
C11_WitnessEmpty ==
  ZShiftSet /\ res.ShiftAngle = Unset /\ hasBranchCut /\ IsStaggered

---------------------------------------------------------------------------
(* interpolateAndExtrapolate called on its own                             *)

\* the interior size from which the guard cells are extrapolated, not copied
MinExtrapolate == 3

\* meshes with too few and with enough interior points for the extrapolation,
\* all columns open or the inner ones closed
InterpMeshes ==
  UNION {{m, [m EXCEPT !.core = 0 .. m.MXG]} :
           m \in [MXG : 1 .. MaxGuard, MYG : 1 .. MaxGuard,
                  nx : {1, MinExtrapolate}, ny : {1, MinExtrapolate}, core : {{}}]}

\* the fields handed in: values in every cell, guard cells included
InterpFields ==
  {Tab([p \in Points |-> R(p[1] * p[1] * p[1] + 2 * p[2])]),
   Tab([p \in Points |-> R(p[1] * p[2] + 1)])}

InitInterp ==
  /\ mesh \in InterpMeshes
  /\ \E location \in {"CELL_CENTRE", "CELL_XLOW", "CELL_YLOW"} :
       /\ kind = [entry |-> "interpolateAndExtrapolate", loc |-> location]
       /\ \E f \in InterpFields, floc \in {"CELL_CENTRE", location}, cut \in BOOLEAN :
            src = [loc |-> floc, f |-> f, cut |-> cut]
  /\ res = <<>>
  /\ pc = "call"
  /\ err = ""
  /\ steps = <<>>
  /\ report = <<>>
  /\ ncomm = 0
  /\ call = <<>>

\* result = interpolateAndExtrapolate(f, location, extrap_at_branch_cut)
CallInterpolateAndExtrapolate ==
  /\ pc = "call"
  /\ \E oob \in Garbage :
       \E r \in {interpolateAndExtrapolate(src.f, src.loc, kind.loc, src.cut, oob)} :
         /\ res' = r
         /\ err' = r.err
  /\ pc' = "returned"
  /\ UNCHANGED <<mesh, kind, src, steps, report, ncomm, call>>

SpecInterp == InitInterp /\ [][CallInterpolateAndExtrapolate]_vars

\* the value of guard layer i of the boundary cell pt when the extrapolation
\* is applied to f itself, the first es layers being interpolated from f
RECURSIVE Extrapolated(_, _, _, _, _, _)
Extrapolated(f, b, pt, i, es, oob) ==
  IF i < 0 THEN At(f, pt[1] + i * b.bx, pt[2] + i * b.by, oob)
  ELSE IF i < es
  THEN Div(Sub(Sub(Mul(R(9), Add(At(f, pt[1] - b.bx, pt[2] - b.by, oob), At(f, pt[1], pt[2], oob))),
                   At(f, pt[1] - 2 * b.bx, pt[2] - 2 * b.by, oob)),
               At(f, pt[1] + b.bx, pt[2] + b.by, oob)), R(16))
  ELSE IF (b.bx # 0 /\ mesh.nx >= MinExtrapolate) \/ (b.by # 0 /\ mesh.ny >= MinExtrapolate)
  THEN Add(Sub(Mul(R(3), Extrapolated(f, b, pt, i - 1, es, oob)),
               Mul(R(3), Extrapolated(f, b, pt, i - 2, es, oob))),
           Extrapolated(f, b, pt, i - 3, es, oob))
  ELSE At(f, pt[1] - b.bx, pt[2] - b.by, oob)

\* the boundary guard cells: <<boundary, cell, layer>>
BoundaryGuards ==
  {<<n, k, i>> \in (1 .. Len(getBoundaries)) \X (1 .. (mesh.nx + mesh.ny)) \X (0 .. MaxGuard) :
     k <= Len(getBoundaries[n].pts) /\ i < getBoundaries[n].width}

GuardCell(g) ==
  LET b == getBoundaries[g[1]]
  IN  <<b.pts[g[2]][1] + g[3] * b.bx, b.pts[g[2]][2] + g[3] * b.by>>

AtTargetReturned == pc = "returned" /\ err = "" /\ src.loc = kind.loc

\* the interior cell that the branch-cut step overwrites: row yend of a column
\* with a branch cut above
CutOverwritten(p) == src.cut /\ hasBranchCutUp(p[1]) /\ p[2] = yend

\* the boundaries whose first guard cell is interpolated, not extrapolated
UpperStaggered(b) ==
  (kind.loc = "CELL_XLOW" /\ b.bx > 0) \/ (kind.loc = "CELL_YLOW" /\ b.by > 0)

---------------------------------------------------------------------------
(* calcCovariant followed by calcContravariant                             *)

\* symmetric positive definite: the leading principal minors are positive
PositiveDefiniteAt(c, p) ==
  LET a == MetricAt(c, p)
  IN  /\ \A n \in 1 .. 6 : IsFinite(a[n])
      /\ Less(Zero, a[1])
      /\ Less(Zero, Sub(Mul(a[1], a[2]), Mul(a[4], a[4])))
      /\ Less(Zero, Det(a))

\* the covariant components of the object came out of calcCovariant
CovariantDerived == ~(IsBase /\ HasAllCovariant(src))

\* calcContravariant() is called on an object whose covariant components
\* calcCovariant() derived from a metric positive definite at every grid point
RoundTripCall ==
  /\ pc = "done" /\ pc' = "used"
  /\ CovariantDerived
  /\ \A p \in Points : PositiveDefiniteAt(res, p)

---------------------------------------------------------------------------
(* Delp2 of a Field2D                                                      *)

\* indexD2DX2(f): the central second difference in the x index at the cells
\* of RGN_NOBNDRY; the guard cells of the result are not set
indexD2DX2(f, oob) ==
  Let(f, LAMBDA t : Tab([p \in Points |->
     IF p \in NoBndry
     THEN Add(Sub(At(t, p[1] + 1, p[2], oob), Mul(R(2), t[p])), At(t, p[1] - 1, p[2], oob))
     ELSE oob]))

\* D2DX2(f, outloc): the second difference over dx^2, with the correction
\* d1_dx * indexDDX(f) for non-uniform meshes (non_uniform is on by default)
D2DX2(c, f, oob) ==
  FAdd(FDiv(indexD2DX2(f, oob), FMul(c.dx, c.dx)), FMul(c.d1_dx, indexDDX(f, oob)))

\* a Delp2 with the first derivative in place of the second
Delp2_2D_gradient(c, f, oob) ==
  FAdd(FMul(c.G1, DDX(c, f, oob)), FMul(c.g11, DDX(c, f, oob)))

\* Coordinates::Delp2(const Field2D &f, CELL_LOC outloc)
Delp2_2D(c, f, oob) ==
  FAdd(FMul(c.G1, DDX(c, f, oob)), FMul(c.g11, D2DX2(c, f, oob)))

Delp2N == 3       \* the interior size of the end-to-end scenario

Delp2Meshes ==
  [MXG : 1 .. MaxGuard, MYG : 1 .. MaxGuard, nx : {1, Delp2N}, ny : {1, Delp2N},
   core : {{}}]

Delp2Scenarios ==
  {Scenario("identity", "unit", cov, "none", "none", FALSE) : cov \in {"none", "all"}}
  \cup {Scenario("stretched", "two", "none", "none", "none", FALSE)}

\* the fields Delp2 is applied to: x^2, x and x^2 + y
Delp2Fields ==
  {Tab([p \in Points |-> R(p[1] * p[1])]),
   Tab([p \in Points |-> R(p[1])]),
   Tab([p \in Points |-> R(p[1] * p[1] + p[2])])}

InitDelp2 ==
  /\ mesh \in Delp2Meshes
  /\ kind = [entry |-> "getCoordinates", loc |-> "CELL_CENTRE"]
  /\ \E sc \in Delp2Scenarios : src = Source(sc, kind)
  /\ res = NewCoordinates
  /\ pc = Program(kind)[1]
  /\ err = ""
  /\ steps = <<>>
  /\ report = <<>>
  /\ ncomm = 0
  /\ call = <<>>

\* a caller of the returned Geometry runs Delp2(f) on a Field2D
CallDelp2_2D ==
  /\ pc = "done"
  /\ \E f \in Delp2Fields, oob \in Garbage :
       call' = [op |-> "Delp2", f |-> f, result |-> Delp2_2D(res, f, oob)]
  /\ pc' = "used"
  /\ UNCHANGED <<mesh, kind, src, res, err, steps, report, ncomm>>

NextDelp2 ==
  \/ Read
  \/ Check
  \/ Covariant
  \/ Jacobian
  \/ Load
  \/ Geometry
  \/ Finish
  \/ CallDelp2_2D

SpecDelp2 == InitDelp2 /\ [][NextDelp2]_vars

\* the source of the identity metric with dx = dy = dz = 1 and no J or Bxy
UnitIdentity ==
  /\ ContravariantIdentity(src)
  /\ src.dx = ConstField(One) /\ src.dy = ConstField(One) /\ src.dz = One
  /\ src.J = Unset /\ src.Bxy = Unset

\* C14: on a 2D grid with the identity metric and dx = dy = dz = 1 the
\* construction gives J = 1 and Bxy = 1 at every grid point and all 18 Gk_ij
\* and G1, G2, G3 zero at every interior point, and Delp2 of f = x^2, computed
\* as G1*DDX(f) + g11*D2DX2(f), equals 2 at every interior point
C14_UnitDelp2 ==
  (pc = "used" /\ UnitIdentity) =>
    /\ res.J = ConstField(One)
    /\ res.Bxy = ConstField(One)
    /\ ConnectionZero(res, NoBndry)
    /\ call.f = Tab([p \in Points |-> R(p[1] * p[1])])
         => \A p \in NoBndry : call.result[p] = R(2)

\* the scenario of the claim: 3 x 3 interior points, 2 guard cells, f = x^2
C14_Witness ==
  /\ pc = "used" /\ UnitIdentity
  /\ mesh.nx = 3 /\ mesh.ny = 3 /\ mesh.MXG = 2 /\ mesh.MYG = 2
  /\ call.f = Tab([p \in Points |-> R(p[1] * p[1])])
  /\ \A p \in NoBndry : call.result[p] = R(2)

---------------------------------------------------------------------------
(* Delp2 of a Field3D, on one process and on a grid decomposed in x        *)

\* laplace_tridag_coefs(jx, jy, 0, a, b, c, nullptr, nullptr, outloc): the
\* coefficients of the kz = 0 mode, with all terms and the non-uniform
\* correction, which reads dx at jx - 1 and jx + 1 away from the array ends
laplace_tridag_coefs(c, p, oob) ==
  LET dxp == c.dx[p]
      coef1 == c.g11[p]
      corr == IF p[1] # 0 /\ p[1] # LocalNx - 1
              THEN Mul(Mul(Half, Div(Sub(At(c.dx, p[1] + 1, p[2], oob),
                                         At(c.dx, p[1] - 1, p[2], oob)),
                                     Mul(dxp, dxp))), coef1)
              ELSE Zero
      coef4 == Div(Sub(c.G1[p], corr), Mul(R(2), dxp))
      c1 == Div(coef1, Mul(dxp, dxp))
  IN  [a |-> Sub(c1, coef4), b |-> Mul(R(-2), c1), c |-> Add(c1, coef4)]

\* a Delp2 that leaves the x guard cells as they were allocated
Delp2_3D_guards_unset(c, f, floc, outloc, check, oob) ==
  [failed |-> Delp2_3D_asserts(c, outloc, floc, check), loc |-> floc,
   f |-> Tab([p \in Points |->
          IF p[1] < xstart \/ p[1] > xend THEN oob
          ELSE LET t == laplace_tridag_coefs(c, p, oob)
               IN  Add(Add(Mul(t.a, At(f, p[1] - 1, p[2], oob)), Mul(t.b, f[p])),
                       Mul(t.c, At(f, p[1] + 1, p[2], oob)))])]

\* Coordinates::Delp2(const Field3D &f, CELL_LOC outloc) with one z plane, where
\* the transforms along z leave the values as they are:
\* [failed |-> the assertion that failed or "", f |-> the field returned,
\*  loc |-> its location]
Delp2_3D(c, f, floc, outloc, check, oob) ==
  LET failed == Delp2_3D_asserts(c, outloc, floc, check)
  IN  IF failed # "" THEN [failed |-> failed, f |-> Unset, loc |-> floc]
      ELSE IF GlobalNx = 1 /\ GlobalNz = 1
      THEN [failed |-> "", f |-> FScale(Zero, f), loc |-> floc]
      ELSE [failed |-> "", loc |-> floc,
            f |-> Tab([p \in Points |->
                   IF p[1] < xstart \/ p[1] > xend THEN Zero
                   ELSE LET t == laplace_tridag_coefs(c, p, oob)
                        IN  Add(Add(Mul(t.a, At(f, p[1] - 1, p[2], oob)), Mul(t.b, f[p])),
                                Mul(t.c, At(f, p[1] + 1, p[2], oob)))])]

DecompNx == 4     \* the interior x size of the whole grid

\* the numbers of processes the grid is run on
Decompositions == {n \in {1, 2, 4} : DecompNx % n = 0}

\* the local meshes of a decomposed grid, and grids without x guard cells
Delp2Meshes3D ==
  {[MXG |-> g, MYG |-> 1, nx |-> DecompNx \div n, ny |-> 1, core |-> {}, NXPE |-> n] :
     g \in 1 .. MaxGuard, n \in Decompositions}
  \cup {[MXG |-> 0, MYG |-> 1, nx |-> n, ny |-> 1, core |-> {}, NXPE |-> 1] : n \in 1 .. 2}

GlobalPoints == (0 .. GlobalNx - 1) \X (0 .. LocalNy - 1)

\* the input fields on the whole grid, one of them with an unset guard cell
GlobalFields ==
  {[p \in GlobalPoints |-> R(p[1] * p[1] * p[1] + p[2])],
   [p \in GlobalPoints |-> R(p[1] * p[1] * (p[2] + 1))],
   [p \in GlobalPoints |-> IF p = <<0, 0>> THEN NaN ELSE R(p[1] * p[1] * p[1] + p[2])]}

\* the fields of the Geometry on the whole grid
GlobalGeometries ==
  {[location |-> "CELL_CENTRE",
    g11 |-> [p \in GlobalPoints |-> One], dx |-> [p \in GlobalPoints |-> One],
    G1 |-> [p \in GlobalPoints |-> Zero]],
   [location |-> "CELL_CENTRE",
    g11 |-> [p \in GlobalPoints |-> R(1 + (p[1] % 2))],
    dx |-> [p \in GlobalPoints |-> R(1 + (p[1] % 3))],
    G1 |-> [p \in GlobalPoints |-> R(p[1])]]}

\* the first x index of process k (1 .. NXPE) in the whole grid
OffsetOf(k) == (k - 1) * mesh.nx

\* a guard exchange that fills no guard cell between two processes
Exchanged_not(g, k, oob) ==
  Tab([p \in Points |->
    IF (p[1] < xstart /\ k > 1) \/ (p[1] > xend /\ k < mesh.NXPE) THEN oob
    ELSE g[<<p[1] + OffsetOf(k), p[2]>>]])

\* the local array of process k once the fields are distributed and their
\* guard cells exchanged: the cells of the whole grid at its indices
Exchanged(g, k, oob) == Tab([p \in Points |-> g[<<p[1] + OffsetOf(k), p[2]>>]])

LocalGeometry(c, k, oob) ==
  [location |-> c.location, g11 |-> Exchanged(c.g11, k, oob),
   dx |-> Exchanged(c.dx, k, oob), G1 |-> Exchanged(c.G1, k, oob)]

InitDelp2_3D ==
  /\ mesh \in Delp2Meshes3D
  /\ kind = [entry |-> "Delp2", loc |-> "CELL_CENTRE"]
  /\ \E f \in GlobalFields, c \in GlobalGeometries,
        outloc \in {"CELL_DEFAULT", "CELL_CENTRE"}, check \in 1 .. 2 :
       src = [f |-> f, floc |-> "CELL_CENTRE", outloc |-> outloc, check |-> check,
              geometry |-> c]
  /\ res = [k \in 1 .. mesh.NXPE |-> Unset]
  /\ pc = "run"
  /\ err = ""
  /\ steps = <<>>
  /\ report = <<>>
  /\ ncomm = 0
  /\ call = <<>>

\* process k calls Delp2 on its part of the field
RunDelp2_3D ==
  /\ pc = "run"
  /\ \E k \in 1 .. mesh.NXPE, oob \in Garbage :
       /\ res[k] = Unset
       /\ \E r \in {Delp2_3D(LocalGeometry(src.geometry, k, oob), Exchanged(src.f, k, oob),
                             src.floc, src.outloc, src.check, oob)} :
            /\ res' = [res EXCEPT ![k] = r]
            /\ err' = r.failed
            /\ pc' = IF r.failed # "" THEN "failed" ELSE "run"
  /\ UNCHANGED <<mesh, kind, src, steps, report, ncomm, call>>

\* the process that owns x index X of the whole grid in the collected data
OwnerOf(X) ==
  IF X < xstart THEN 1
  ELSE IF X >= xstart + mesh.NXPE * mesh.nx THEN mesh.NXPE
  ELSE (X - xstart) \div mesh.nx + 1

\* collect("n"): the results of the processes put together on the whole grid
Collect ==
  /\ pc = "run"
  /\ \A k \in 1 .. mesh.NXPE : res[k] # Unset
  /\ call' = [op |-> "collect",
              n |-> [p \in GlobalPoints |->
                       res[OwnerOf(p[1])].f[<<p[1] - OffsetOf(OwnerOf(p[1])), p[2]>>]]]
  /\ pc' = "collected"
  /\ UNCHANGED <<mesh, kind, src, res, err, steps, report, ncomm>>

NextDelp2_3D ==
  \/ RunDelp2_3D
  \/ Collect

SpecDelp2_3D == InitDelp2_3D /\ [][NextDelp2_3D]_vars

\* Delp2 at the cell p of the whole grid when one process holds all of it:
\* zero in the x guard cells, the three-point combination elsewhere
SerialDelp2(p) ==
  LET c == src.geometry
      f == src.f
      l == <<p[1] - 1, p[2]>>
      r == <<p[1] + 1, p[2]>>
  IN  IF p[1] < mesh.MXG \/ p[1] > GlobalNx - 1 - mesh.MXG THEN Zero
      ELSE LET dxp == c.dx[p]
               c1 == Div(c.g11[p], Mul(dxp, dxp))
               corr == Mul(Mul(Half, Div(Sub(c.dx[r], c.dx[l]), Mul(dxp, dxp))), c.g11[p])
               coef4 == Div(Sub(c.G1[p], corr), Mul(R(2), dxp))
           IN  Add(Add(Mul(Sub(c1, coef4), f[l]), Mul(Mul(R(-2), c1), f[p])),
                   Mul(Add(c1, coef4), f[r]))

\* C15: for a fixed whole grid and input field, with x guard width 1 or 2, the
\* Delp2 result collected from 1, 2 or 4 processes has the shape of the whole
\* grid and at every point of it the value that one process computes
C15_DecompositionInvariant ==
  (pc = "collected" /\ mesh.MXG >= 1) =>
     /\ DOMAIN call.n = GlobalPoints
     /\ \A p \in GlobalPoints : call.n[p] = SerialDelp2(p)

\* four processes with one guard cell each returned a result that is not
\* zero at an interior point next to a guard cell filled by the neighbour
C15_Witness ==
  /\ pc = "collected" /\ mesh.NXPE = 4 /\ mesh.MXG = 1
  /\ src.geometry.G1[<<2, 1>>] # Zero
  /\ IsFinite(call.n[<<2, 1>>]) /\ call.n[<<2, 1>>] # Zero
  /\ call.n[<<2, 1>>] = SerialDelp2(<<2, 1>>)
  /\ \A k \in 1 .. 4 : res[k].failed = ""

\* process k returned from Delp2 without a failed assertion
Returned(k) == res[k] # Unset /\ res[k].failed = ""

DegenerateGrid == GlobalNx = 1 /\ GlobalNz = 1

\* C16 (as the code has it): Delp2 of a 3D field returns a field that is zero
\* at every x guard cell (jx < xstart or jx > xend) for every y; when
\* GlobalNx = 1 and GlobalNz = 1 it returns f*0, which is zero where f is
\* finite and NaN where f is NaN or infinite
C16_GuardsZero ==
  pc \in {"run", "collected"} =>
    \A k \in 1 .. mesh.NXPE :
      Returned(k) =>
        \A p \in Points :
          IF DegenerateGrid
          THEN res[k].f[p] = IF IsFinite(src.f[<<p[1] + OffsetOf(k), p[2]>>]) THEN Zero ELSE NaN
          ELSE (p[1] < xstart \/ p[1] > xend) => res[k].f[p] = Zero

\* C16 as stated: zero at every x guard cell, and identically zero when
\* GlobalNx = 1 and GlobalNz = 1
C16_AsStated ==
  pc \in {"run", "collected"} =>
    \A k \in 1 .. mesh.NXPE :
      Returned(k) =>
        \A p \in Points :
          (DegenerateGrid \/ p[1] < xstart \/ p[1] > xend) => res[k].f[p] = Zero

\* Delp2 returned on the grid of one x point and one z plane, for a field
\* with an unset cell: zero at one cell, NaN at another
C16_Witness ==
  /\ pc = "run" /\ DegenerateGrid /\ Returned(1)
  /\ ~IsFinite(src.f[<<0, 0>>])
  /\ res[1].f[<<0, 0>>] = NaN
  /\ res[1].f[<<0, 1>>] = Zero

\* Delp2 returned on a grid with two x guard cells on each side
C16_WitnessGuards ==
  /\ mesh.MXG = 2 /\ Returned(1)
  /\ \A p \in Points : (p[1] < xstart \/ p[1] > xend) => res[1].f[p] = Zero
  /\ \E p \in Points : res[1].f[p] # Zero

---------------------------------------------------------------------------
(* The construction on several processes                                   *)

NumProcs == 3     \* the processes the grid is decomposed over

Procs == 1 .. NumProcs

Event(t, n) == [type |-> t, name |-> n]

\* the checks, inversion, Jacobian and geometry() of an entry point: local
\* steps that may raise, then the halo exchange of the connection terms
DeriveEvents ==
  <<Event("local", "check"), Event("local", "covariant"), Event("local", "jacobian")>>

GeometryEvents == <<Event("local", "geometry checks"), Event("exchange", "com")>>

\* a getCoordinates that tests the Bxy of the grid source after the exchanges
ProcessProgram_late(k) ==
  (IF mesh.periodicX THEN <<Event("exchange", "dx")>> ELSE <<>>)
  \o DeriveEvents \o GeometryEvents \o <<Event("exchange", "zShift"), Event("local", "load")>>

\* what one process does in an entry point, in program order: a halo exchange
\* ("exchange", which every process takes part in) or a local step that may
\* raise, named after the step of the construction it belongs to
ProcessProgram(k) ==
  IF k.entry = "getCoordinates"
  THEN (IF mesh.periodicX THEN <<Event("exchange", "dx")>> ELSE <<>>)
       \o DeriveEvents \o <<Event("local", "load")>> \o GeometryEvents
       \o <<Event("exchange", "zShift")>>
  ELSE (IF k.entry = "getCoordinatesXYCorner"
        THEN <<Event("local", "assert"), Event("exchange", "temp_for_xguards")>>
        ELSE <<>>)
       \o <<Event("exchange", "dx"), Event("local", "extrapolate"),
            Event("exchange", "dy .. g23"), Event("exchange", "zShift")>>
       \o DeriveEvents \o GeometryEvents \o <<Event("exchange", "ShiftTorsion")>>

\* the local steps of the program: the places where a process may raise
ThrowSites(k) ==
  {ProcessProgram(k)[i].name : i \in {j \in 1 .. Len(ProcessProgram(k)) :
                                        ProcessProgram(k)[j].type = "local"}}

\* every process starts the same entry point; src[p] is the step at which the
\* data of process p make it raise, "none" when they are sound
InitProcs ==
  /\ \E b \in BOOLEAN :
       mesh = [MXG |-> 1, MYG |-> 1, nx |-> 1, ny |-> 1, core |-> {}, NXPE |-> NumProcs,
               periodicX |-> b]
  /\ kind \in Kinds
  /\ src \in [Procs -> {"none"} \cup ThrowSites(kind)]
  /\ res = [p \in Procs |-> "running"]
  /\ pc = [p \in Procs |-> 1]
  /\ err = [p \in Procs |-> ""]
  /\ steps = <<>>
  /\ report = <<>>
  /\ ncomm = 0
  /\ call = <<>>

AtEvent(p) == ProcessProgram(kind)[pc[p]]

\* a process runs its next local step: it raises, or goes on
LocalStep ==
  /\ \E p \in Procs :
       /\ res[p] = "running" /\ pc[p] <= Len(ProcessProgram(kind))
       /\ AtEvent(p).type = "local"
       /\ IF src[p] = AtEvent(p).name
          THEN res' = [res EXCEPT ![p] = "failed"]
               /\ err' = [err EXCEPT ![p] = AtEvent(p).name] /\ pc' = pc
          ELSE pc' = [pc EXCEPT ![p] = @ + 1] /\ res' = res /\ err' = err
  /\ UNCHANGED <<mesh, kind, src, steps, report, ncomm, call>>

\* communicate(): every process has reached the same exchange call
Exchange ==
  /\ \A p \in Procs : /\ res[p] = "running" /\ pc[p] = pc[1]
                      /\ pc[p] <= Len(ProcessProgram(kind))
                      /\ AtEvent(p).type = "exchange"
  /\ pc' = [p \in Procs |-> pc[p] + 1]
  /\ ncomm' = ncomm + 1
  /\ UNCHANGED <<mesh, kind, src, res, err, steps, report, call>>

\* a process returns the Geometry it built
Return ==
  /\ \E p \in Procs :
       /\ res[p] = "running" /\ pc[p] = Len(ProcessProgram(kind)) + 1
       /\ res' = [res EXCEPT ![p] = "done"]
  /\ UNCHANGED <<mesh, kind, src, pc, err, steps, report, ncomm, call>>

\* the exception of a process reaches the top level, which ends the run on
\* every process
Abort ==
  /\ call = <<>>
  /\ \E p \in Procs :
       /\ res[p] = "failed"
       /\ call' = [op |-> "abort", by |-> p]
  /\ res' = [q \in Procs |-> IF res[q] = "running" THEN "killed" ELSE res[q]]
  /\ UNCHANGED <<mesh, kind, src, pc, err, steps, report, ncomm>>

NextProcs ==
  \/ LocalStep
  \/ Exchange
  \/ Return
  \/ Abort

\* the exception of a process does reach the top level
SpecProcs == InitProcs /\ [][NextProcs]_vars /\ WF_vars(Abort)

SomeFailed == \E p \in Procs : res[p] = "failed"

\* C17: once a process has raised during the construction no other process
\* completes the construction, and every other process is ended: none stays
\* blocked in a halo exchange for ever
C17_FatalTerminates ==
  /\ [](SomeFailed => \A q \in Procs : res[q] # "done")
  /\ (SomeFailed ~> \A q \in Procs : res[q] \in {"failed", "killed"})

\* a process raised in the checks of geometry() while another waited in the
\* halo exchange of the connection terms, and the run was ended
C17_Witness ==
  /\ call # <<>>
  /\ \E p, q \in Procs :
       /\ res[p] = "failed" /\ err[p] = "geometry checks"
       /\ res[q] = "killed" /\ AtEvent(q) = Event("exchange", "com")

---------------------------------------------------------------------------
(* Field storage in the staggered and corner entry points                  *)

\* A Field2D is a location tag and a reference to an array that copies of the
\* field share until allocate() gives one of them an array of its own.  The
\* arrays are the elements of a sequence (here the variable call); one array
\* is abstracted to what its interior cells and its guard cells hold.

\* the fields of the source that the entry points read, in program order; the
\* last two are read after geometry()
SourceFields ==
  <<"dx", "dy", "g11", "g22", "g33", "g12", "g13", "g23", "zShift",
    "ShiftTorsion", "IntShiftTorsion">>

SourceArray(n) == [interior |-> <<"source", n>>, guard |-> <<"source", n>>]

SourceLocation(k) ==
  IF k.entry = "getCoordinatesXYCorner" THEN "CELL_XLOW" ELSE "CELL_CENTRE"

\* an array is shared when a field of the source or of the result refers to it
SharedArray(id) ==
  \/ \E n \in DOMAIN src : src[n].data = id
  \/ \E n \in DOMAIN res : res[n] # Unset /\ res[n].data = id

\* an allocate() that leaves a shared array shared
allocate_shared(h, r) == [h |-> h, r |-> r]

\* Field2D::allocate(): makes the array of the field unique
allocate(h, r) ==
  IF SharedArray(r.data)
  THEN [h |-> Append(h, h[r.data]), r |-> [r EXCEPT !.data = Len(h) + 1]]
  ELSE [h |-> h, r |-> r]

WriteGuards(h, r, v) == [h EXCEPT ![r.data].guard = v]

\* interpolateAndExtrapolate(f, location, ...) on the arrays: interp_to hands
\* back a copy of f when f is already at location and a new field otherwise,
\* allocate(), communicate(result), then the boundary loop, which may raise
InterpolateArrays(h, f, location, raises) ==
  LET r0 == IF f.loc = location THEN [h |-> h, r |-> f]
            ELSE [h |-> Append(h, [interior |-> <<"interpolated">>, guard |-> <<"unset">>]),
                  r |-> [data |-> Len(h) + 1, loc |-> location]]
      r1 == allocate(r0.h, r0.r)
      h2 == WriteGuards(r1.h, r1.r, <<"exchanged">>)
  IN  IF raises THEN [err |-> "Not enough points", h |-> h2, r |-> r1.r]
      ELSE [err |-> "", h |-> WriteGuards(h2, r1.r, <<"extrapolated">>), r |-> r1.r]

\* interpXLOWToXYCorner(f, ...) on the arrays: result = f, allocate(), the
\* assertions, the location set to CELL_CENTRE, interpolateAndExtrapolate of
\* result, the outer x points copied in
CornerArrays(h, f, raises) ==
  IF ~ASSERT1(CornerPrecondition)
  THEN [err |-> "localmesh->xstart > 1 && localmesh->ystart > 1", h |-> h, r |-> f]
  ELSE LET r1 == allocate(h, f)
       IN  IF ~ASSERT1(r1.r.loc = "CELL_XLOW")
           THEN [err |-> "result.getLocation() == CELL_XLOW", h |-> r1.h, r |-> r1.r]
           ELSE LET i == InterpolateArrays(r1.h, [r1.r EXCEPT !.loc = "CELL_CENTRE"],
                                           "CELL_YLOW", raises)
                IN  IF i.err # "" THEN i
                    ELSE [err |-> "",
                          h |-> [i.h EXCEPT ![i.r.data].interior = <<"outer x copied in">>],
                          r |-> [i.r EXCEPT !.loc = "CELL_CENTRE"]]

\* the staggered and corner entry points, also with a source already at the
\* location asked for; raises: the field whose boundary loop raises (0: none)
StorageKinds ==
  {[entry |-> k.entry, loc |-> k.loc, raises |-> i] :
     k \in (Kinds \ {[entry |-> "getCoordinates", loc |-> "CELL_CENTRE"]})
             \cup {[entry |-> "getCoordinatesStaggered", loc |-> "CELL_CENTRE"]},
     i \in 0 .. Len(SourceFields)}

InitStorage ==
  /\ mesh \in [MXG : 1 .. MaxGuard, MYG : 1 .. MaxGuard, nx : {1}, ny : {1}, core : {{}}]
  /\ kind \in StorageKinds
  /\ src = [n \in 1 .. Len(SourceFields) |-> [data |-> n, loc |-> SourceLocation(kind)]]
  /\ res = [n \in 1 .. Len(SourceFields) |-> Unset]
  /\ call = [n \in 1 .. Len(SourceFields) |-> SourceArray(SourceFields[n])]
  /\ pc = "build"
  /\ err = ""
  /\ steps = <<>>
  /\ report = <<>>
  /\ ncomm = 0

\* the field the entry point builds next: one step is recorded for each built
NextField == Len(steps) + 1

\* result->field = interpolateAndExtrapolate(coords_in->field, ...), or
\* interpXLOWToXYCorner(coords_xlow->field, ...) in the corner entry point
BuildField ==
  /\ pc = "build" /\ NextField <= Len(SourceFields)
  /\ \E b \in {IF kind.entry = "getCoordinatesXYCorner"
               THEN CornerArrays(call, src[NextField], kind.raises = NextField)
               ELSE InterpolateArrays(call, src[NextField], kind.loc,
                                      kind.raises = NextField)} :
       /\ call' = b.h
       /\ err' = b.err
       /\ res' = IF b.err = "" THEN [res EXCEPT ![NextField] = b.r] ELSE res
       /\ pc' = IF b.err = "" THEN "build" ELSE "failed"
       /\ steps' = Append(steps, [step |-> SourceFields[NextField], err |-> b.err])
  /\ UNCHANGED <<mesh, kind, src, report, ncomm>>

\* the entry point returns the result
ReturnResult ==
  /\ pc = "build" /\ NextField = Len(SourceFields) + 1
  /\ pc' = "done"
  /\ UNCHANGED <<mesh, kind, src, res, err, steps, report, ncomm, call>>

NextStorage ==
  \/ BuildField
  \/ ReturnResult

SpecStorage == InitStorage /\ [][NextStorage]_vars

\* C18: while a staggered or corner Geometry is built, and after the entry
\* point has returned or failed, every field of the source has the location
\* tag and the array contents (guard cells included) it had before the call,
\* and no field of the result refers to an array of the source
C18_SourceUntouched ==
  /\ \A n \in 1 .. Len(SourceFields) :
       /\ src[n].loc = SourceLocation(kind)
       /\ call[src[n].data] = SourceArray(SourceFields[n])
  /\ \A m, n \in 1 .. Len(SourceFields) : res[m] # Unset => res[m].data # src[n].data

\* the corner entry point returned: its fields began as copies of the source
\* fields and ended in arrays of their own; and a staggered entry point whose
\* source was already at the location asked for failed in a boundary loop
C18_Witness ==
  \/ /\ pc = "done" /\ kind.entry = "getCoordinatesXYCorner"
     /\ \A m \in 1 .. Len(SourceFields) : res[m] # Unset /\ res[m].data > Len(SourceFields)
  \/ /\ pc = "failed" /\ kind.loc = SourceLocation(kind) /\ kind.entry = "getCoordinatesStaggered"
     /\ Len(call) > Len(SourceFields)


---------------------------------------------------------------------------
(* geometry(), statement by statement: the assignments of the connection   *)
(* terms, the FieldGroup and its exchange, the non-uniform corrections     *)

Statement(o, n) == [op |-> o, name |-> n]

\* a geometry() that hands each field to the halo exchange as it is added
GeometryStatements_each(d2x, d2y) ==
  [i \in 1 .. Len(FieldGroup) |-> Statement("assign", FieldGroup[i])]
  \o [i \in 1 .. 2 * Len(FieldGroup) |->
        IF i % 2 = 1 THEN Statement("add", FieldGroup[(i + 1) \div 2])
        ELSE Statement("communicate", "com")]
  \o <<Statement(IF d2x = Unset THEN "indexDDX" ELSE "assign", "d1_dx"),
       Statement(IF d2y = Unset THEN "indexDDY" ELSE "assign", "d1_dy")>>

\* the statements of geometry() that follow its checks, in program order: the
\* 18 Gk_ij then G1, G2, G3 are assigned, each is added to the FieldGroup com,
\* com is exchanged, and d1_dx, d1_dy are set from d2x, d2y of the grid source
\* or, when it has none, by indexDDX, indexDDY (which exchange nothing)
GeometryStatements(d2x, d2y) ==
  <<Statement("assign", "G1_11"), Statement("assign", "G1_22"),
    Statement("assign", "G1_33"), Statement("assign", "G1_12"),
    Statement("assign", "G1_13"), Statement("assign", "G1_23"),
    Statement("assign", "G2_11"), Statement("assign", "G2_22"),
    Statement("assign", "G2_33"), Statement("assign", "G2_12"),
    Statement("assign", "G2_13"), Statement("assign", "G2_23"),
    Statement("assign", "G3_11"), Statement("assign", "G3_22"),
    Statement("assign", "G3_33"), Statement("assign", "G3_12"),
    Statement("assign", "G3_13"), Statement("assign", "G3_23"),
    Statement("assign", "G1"), Statement("assign", "G2"), Statement("assign", "G3")>>
  \o [i \in 1 .. Len(FieldGroup) |-> Statement("add", FieldGroup[i])]
  \o <<Statement("communicate", "com")>>
  \o <<Statement(IF d2x = Unset THEN "indexDDX" ELSE "assign", "d1_dx"),
       Statement(IF d2y = Unset THEN "indexDDY" ELSE "assign", "d1_dy")>>

\* the objects geometry() is called on: the identity metric, sound, with a
\* spacing below the floor, or with a component that is not finite
GeometryInputs ==
  {[NewCoordinates EXCEPT
      !.dx = ConstField(d), !.dy = ConstField(One), !.dz = One,
      !.g11 = ConstField(g), !.g22 = ConstField(One), !.g33 = ConstField(One),
      !.g12 = ConstField(Zero), !.g13 = ConstField(Zero), !.g23 = ConstField(Zero),
      !.g_11 = ConstField(g), !.g_22 = ConstField(One), !.g_33 = ConstField(One),
      !.g_12 = ConstField(Zero), !.g_13 = ConstField(Zero), !.g_23 = ConstField(Zero),
      !.J = ConstField(One), !.Bxy = ConstField(One)] :
     d \in {One, TinySpacing}, g \in {One, NaN}}

\* pc: 0 at the checks, then the position in GeometryStatements, -1 after a
\* throw; res: the fields assigned so far; call: the FieldGroup com; steps:
\* one entry per halo-exchange call made
InitGeometry ==
  /\ mesh \in Meshes
  /\ kind = [entry |-> "getCoordinates", loc |-> "CELL_CENTRE"]
  /\ \E c \in GeometryInputs, x \in {Unset, ConstField(Zero)},
        y \in {Unset, ConstField(Zero)} :
       src = [c |-> c, d2x |-> x, d2y |-> y]
  /\ res = {}
  /\ pc = 0
  /\ err = ""
  /\ steps = <<>>
  /\ report = <<>>
  /\ ncomm = 0
  /\ call = <<>>

GeometryBody == GeometryStatements(src.d2x, src.d2y)

AtStatement(o) ==
  /\ pc \in 1 .. Len(GeometryBody)
  /\ GeometryBody[pc].op \in o

\* lines 636-664: the first failing check throws
CheckStatement ==
  /\ pc = 0
  /\ \E e \in {GeometryChecks(src.c)} :
       /\ err' = e
       /\ pc' = IF e # "" THEN -1 ELSE 1
  /\ UNCHANGED <<mesh, kind, src, res, steps, report, ncomm, call>>

\* an assignment to a member field; DDX, DDY, indexDDX and indexDDY read the
\* guard cells as they are and exchange nothing
AssignStatement ==
  /\ AtStatement({"assign", "indexDDX", "indexDDY"})
  /\ res' = res \cup {GeometryBody[pc].name}
  /\ pc' = pc + 1
  /\ UNCHANGED <<mesh, kind, src, err, steps, report, ncomm, call>>

\* com.add(field)
AddStatement ==
  /\ AtStatement({"add"})
  /\ call' = Append(call, GeometryBody[pc].name)
  /\ pc' = pc + 1
  /\ UNCHANGED <<mesh, kind, src, res, err, steps, report, ncomm>>

\* localmesh->communicate(com): one halo-exchange call on the group as it is
CommunicateStatement ==
  /\ AtStatement({"communicate"})
  /\ ncomm' = ncomm + 1
  /\ steps' = Append(steps, [fields |-> call, assigned |-> res])
  /\ pc' = pc + 1
  /\ UNCHANGED <<mesh, kind, src, res, err, report, call>>

NextGeometry ==
  \/ CheckStatement
  \/ AssignStatement
  \/ AddStatement
  \/ CommunicateStatement

SpecGeometry == InitGeometry /\ [][NextGeometry]_vars

\* the 18 Gk_ij and G1, G2, G3
ConnectionTerms ==
  {"G1_11", "G1_22", "G1_33", "G1_12", "G1_13", "G1_23",
   "G2_11", "G2_22", "G2_33", "G2_12", "G2_13", "G2_23",
   "G3_11", "G3_22", "G3_33", "G3_12", "G3_13", "G3_23", "G1", "G2", "G3"}

GeometryReturned == pc = Len(GeometryBody) + 1

\* C19: geometry() makes exactly one halo-exchange call for the connection
\* terms: never more than one, one when it returns, and that call is made
\* after all 18 Gk_ij and G1, G2, G3 were assigned and carries all 21 of them
C19_SingleExchange ==
  /\ ncomm <= 1 /\ Len(steps) = ncomm
  /\ GeometryReturned => ncomm = 1
  /\ \A i \in 1 .. Len(steps) :
       /\ Len(steps[i].fields) = 21
       /\ {steps[i].fields[n] : n \in 1 .. Len(steps[i].fields)} = ConnectionTerms
       /\ ConnectionTerms \subseteq steps[i].assigned

\* geometry() returned on a source without d2x and d2y, so that indexDDX and
\* indexDDY ran as well, and the exchange was made
C19_Witness ==
  /\ GeometryReturned /\ ncomm = 1
  /\ src.d2x = Unset /\ src.d2y = Unset


---------------------------------------------------------------------------
(* getCoordinatesStaggered on a source Geometry that holds its own derived *)
(* quantities, as one returned by getCoordinates(CELL_CENTRE) does         *)

\* the sources of the staggered builder: sound cell-centre metrics
StaggeredScenarios ==
  {Scenario("identity", "unit", "none", "none", "none", tw) : tw \in BOOLEAN}
  \cup {Scenario("stretched", "two", "none", "none", "none", FALSE)}

\* coords_in: the fields of the scenario with the g_ij, J and Bxy that
\* getCoordinates derived for it at CELL_CENTRE
StaggeredSource(sc, k) ==
  Let(Source(sc, k), LAMBDA s :
    Let(jacobian(calcCovariant(ReadSource(NewCoordinates, s), R(7)).c).c, LAMBDA c :
      [s EXCEPT !.g_11 = c.g_11, !.g_22 = c.g_22, !.g_33 = c.g_33,
                !.g_12 = c.g_12, !.g_13 = c.g_13, !.g_23 = c.g_23,
                !.J = c.J, !.Bxy = c.Bxy]))

\* the grids of the staggered builder: one or two guard cells in x, MaxN
\* interior points at most in x
StaggeredMeshes ==
  [MXG : 1 .. MaxGuard, MYG : {1}, nx : 1 .. MaxN, ny : {1}, core : {{}}]

InitStaggered ==
  /\ mesh \in StaggeredMeshes
  /\ kind \in {k \in Kinds : k.entry = "getCoordinatesStaggered"}
  /\ \E sc \in StaggeredScenarios : src = StaggeredSource(sc, kind)
  /\ res = NewCoordinates
  /\ pc = Program(kind)[1]
  /\ err = ""
  /\ steps = <<>>
  /\ report = <<>>
  /\ ncomm = 0
  /\ call = <<>>

NextStaggered ==
  \/ Interpolate
  \/ Check
  \/ Covariant
  \/ Jacobian
  \/ Geometry
  \/ Finish

SpecStaggered == InitStaggered /\ [][NextStaggered]_vars

\* the quantities the builder derives: g_ij, J, Bxy and the connection terms
DerivedNames == CovariantNames \o <<"J", "Bxy">> \o FieldGroup

ContravariantNames == <<"g11", "g22", "g33", "g12", "g13", "g23">>

\* geometry() of the staggered builder has returned
StaggeredDerived ==
  /\ IsStaggered
  /\ Len(steps) >= 5 /\ steps[5].step = "geometry" /\ steps[5].err = ""

\* what calcCovariant, then jacobian, then geometry give on the fields
\* interpolated from the source, for some contents of the cells outside the
\* arrays
DerivedFromInterpolated(c) ==
  \E o1 \in Garbage, o2 \in Garbage, o3 \in Garbage :
    Let(InterpolateFields(NewCoordinates, src, kind,
          LAMBDA f, e : interpolateAndExtrapolate(f, src.loc, kind.loc, e, o1), o1),
        LAMBDA i :
      /\ i.err = ""
      /\ \A n \in 1 .. Len(ContravariantNames) :
           c[ContravariantNames[n]] = i.c[ContravariantNames[n]]
      /\ CheckInterpolatedMetrics(i.c) = ""
      /\ Let(calcCovariant(i.c, o2), LAMBDA c1 :
           /\ c1.rc = 0
           /\ Let(jacobian(c1.c), LAMBDA c2 :
                /\ c2.err = ""
                /\ Let(geometry(c2.c, src.d2x, src.d2y, o3), LAMBDA c3 :
                     /\ c3.err = ""
                     /\ \A n \in 1 .. Len(DerivedNames) :
                          c[DerivedNames[n]] = c3.c[DerivedNames[n]]))))

\* C20: when geometry() of getCoordinatesStaggered has returned, the steps
\* that ran are the interpolation, the check of the interpolated metric,
\* calcCovariant, jacobian and geometry, in that order and without an
\* exception, and the result's g_ij, J, Bxy and connection terms are what
\* calcCovariant, then jacobian, then geometry give on the six interpolated
\* contravariant components: none is taken from the source Geometry
C20_DerivedInOrder ==
  StaggeredDerived =>
    /\ StepNames(SubSeq(steps, 1, 5)) =
         <<"interpolate", "check", "covariant", "jacobian", "geometry">>
    /\ \A n \in 1 .. 5 : steps[n].err = ""
    /\ DerivedFromInterpolated(res)

\* the builder returned at CELL_XLOW from a source whose own g_11 differs
\* from the one derived for the result
C20_Witness ==
  /\ StaggeredDerived /\ pc = "done" /\ kind.loc = "CELL_XLOW"
  /\ HasAllCovariant(src) /\ src.J # Unset /\ src.Bxy # Unset
  /\ \E p \in NoBndry : src.g_11[p] # res.g_11[p]


---------------------------------------------------------------------------
(* getCoordinatesStaggered on a source whose fields vary along y, on       *)
(* meshes with and without closed columns                                  *)

\* enough interior points for the cubic extrapolation, closed inner columns
\* or none
ShiftMeshes ==
  UNION {{m, [m EXCEPT !.core = 0 .. m.MXG]} :
           m \in [MXG : 1 .. MaxGuard, MYG : 1 .. MaxGuard,
                  nx : {MinExtrapolate}, ny : {MinExtrapolate}, core : {{}}]}

\* the identity metric with twist-shift data, and with dx, g11, ShiftTorsion
\* and IntShiftTorsion that are not periodic in y
VaryingSource(k) ==
  Let(Source(Scenario("identity", "unit", "none", "none", "none", TRUE), k), LAMBDA s :
    [s EXCEPT !.dx = Tab([p \in Points |-> R(1 + p[2])]),
              !.g11 = Tab([p \in Points |-> R(1 + p[2])]),
              !.ShiftTorsion = Tab([p \in Points |-> R(p[2])]),
              !.IntShiftTorsion = Tab([p \in Points |-> R(2 * p[2])])])

InitShift ==
  /\ mesh \in ShiftMeshes
  /\ kind \in {k \in Kinds : k.entry = "getCoordinatesStaggered"}
  /\ \E v \in BOOLEAN :
       src = IF v THEN VaryingSource(kind)
             ELSE Source(Scenario("identity", "unit", "none", "none", "none", FALSE), kind)
  /\ res = NewCoordinates
  /\ pc = Program(kind)[1]
  /\ err = ""
  /\ steps = <<>>
  /\ report = <<>>
  /\ ncomm = 0
  /\ call = <<>>

SpecShift == InitShift /\ [][NextStaggered]_vars

StaggeredBuilt == IsStaggered /\ pc = "done"

\* the third argument of interpolateAndExtrapolate for each field
CutFlag(n) ==
  IF n \in {"dx", "dy", "zShift", "ShiftTorsion"} THEN FALSE
  ELSE IF n = "IntShiftTorsion" THEN TRUE
  ELSE hasBranchCut

\* the fields set before the checks, zShift apart, and those set at the end
EarlyFields == {"dx", "dy", "g11", "g22", "g33", "g12", "g13", "g23"}
LateFields == {"ShiftTorsion"} \cup (IF src.IncIntShear THEN {"IntShiftTorsion"} ELSE {})

InterpolatedAs(n, cut, oob) ==
  interpolateAndExtrapolate(src[n], src.loc, kind.loc, cut, oob).f

\* the guard layers of the boundaries that are extrapolated: all but the
\* first layer of the upper boundary in the direction of the stagger
ExtrapolatedGuards ==
  {g \in BoundaryGuards :
     g[3] >= (IF UpperStaggered(getBoundaries[g[1]]) THEN 1 ELSE 0)}

\* the cell holds the extrapolation of the values of f along the normal
IsExtrapolation(f, g, oob) ==
  LET b == getBoundaries[g[1]]
      c == GuardCell(g)
  IN  f[c] = IF (b.bx # 0 /\ mesh.nx >= MinExtrapolate) \/ (b.by # 0 /\ mesh.ny >= MinExtrapolate)
             THEN Add(Sub(Mul(R(3), At(f, c[1] - b.bx, c[2] - b.by, oob)),
                          Mul(R(3), At(f, c[1] - 2 * b.bx, c[2] - 2 * b.by, oob))),
                      At(f, c[1] - 3 * b.bx, c[2] - 3 * b.by, oob))
             ELSE At(f, b.pts[g[2]][1] - b.bx, b.pts[g[2]][2] - b.by, oob)

---------------------------------------------------------------------------
(* The boundary loop of interpolateAndExtrapolate for a staggered target   *)

\* the boundaries whose normal is along the stagger of the target location
AlongStagger(b) ==
  (kind.loc = "CELL_XLOW" /\ b.bx # 0) \/ (kind.loc = "CELL_YLOW" /\ b.by # 0)

\* three points or more remain along the normal without the guard cells
ThreeRemain(b) ==
  (b.bx # 0 /\ mesh.nx >= MinExtrapolate) \/ (b.by # 0 /\ mesh.ny >= MinExtrapolate)

\* (9 (a + b) - c - d) / 16 of the four values of f around the cell face at
\* pt along the normal of b, a and b being the nearest two
FourPoint(f, b, pt, oob) ==
  LET s == IF b.bx # 0 THEN <<1, 0>> ELSE <<0, 1>>
      a == At(f, pt[1] - s[1], pt[2] - s[2], oob)
      bb == At(f, pt[1], pt[2], oob)
      c == At(f, pt[1] - 2 * s[1], pt[2] - 2 * s[2], oob)
      d == At(f, pt[1] + s[1], pt[2] + s[2], oob)
  IN  Div(Sub(Sub(Mul(R(9), Add(a, bb)), c), d), R(16))

\* the value of layer i of the boundary cell pt as the boundary loop sets it:
\* r0 inside the grid (i < 0), the 4-point average of f for the first es
\* layers, then the cubic extrapolation of the three layers before it
RECURSIVE Layer(_, _, _, _, _, _, _)
Layer(r0, f, b, pt, i, es, oob) ==
  IF i < 0 THEN At(r0, pt[1] + i * b.bx, pt[2] + i * b.by, oob)
  ELSE IF i < es THEN FourPoint(f, b, pt, oob)
  ELSE Add(Sub(Mul(R(3), Layer(r0, f, b, pt, i - 1, es, oob)),
               Mul(R(3), Layer(r0, f, b, pt, i - 2, es, oob))),
           Layer(r0, f, b, pt, i - 3, es, oob))

StaggeredReturned ==
  /\ pc = "returned" /\ err = ""
  /\ kind.loc \in {"CELL_XLOW", "CELL_YLOW"}

---------------------------------------------------------------------------
(* interpolateAndExtrapolate on one process of a grid decomposed in x      *)

\* one process of NXPE side by side in x, each with nx interior points; the
\* x guard cells on the side of a neighbour belong to no boundary
EdgeMeshes ==
  {m \in [MXG : 1 .. MaxGuard, MYG : {1}, nx : {1, MinExtrapolate}, ny : {1},
          core : {{}}, NXPE : {1, NumProcs}, PE_XIND : 0 .. NumProcs - 1] :
     m.PE_XIND < m.NXPE}

InitEdge ==
  /\ mesh \in EdgeMeshes
  /\ \E location \in {"CELL_CENTRE", "CELL_XLOW", "CELL_YLOW"} :
       /\ kind = [entry |-> "interpolateAndExtrapolate", loc |-> location]
       /\ \E f \in InterpFields, floc \in {"CELL_CENTRE", location} :
            src = [loc |-> floc, f |-> f, cut |-> FALSE]
  /\ res = <<>>
  /\ pc = "call"
  /\ err = ""
  /\ steps = <<>>
  /\ report = <<>>
  /\ ncomm = 0
  /\ call = <<>>

SpecEdge == InitEdge /\ [][CallInterpolateAndExtrapolate]_vars

\* the interior points of this process along the normal of the boundary
LocalRemain(b) == IF b.bx # 0 THEN mesh.nx ELSE mesh.ny

\* the interior points of the whole grid along the normal of the boundary
GlobalRemain(b) == IF b.bx # 0 THEN GlobalNx - 2 * b.width ELSE GlobalNy - 2 * b.width

\* every extrapolated guard layer of the boundary holds the value of the last
\* interior point
ConstantGuards(n) ==
  LET b == getBoundaries[n]
  IN  \A g \in ExtrapolatedGuards :
        g[1] = n => res.f[GuardCell(g)] = res.f[<<b.pts[g[2]][1] - b.bx, b.pts[g[2]][2] - b.by>>]

Boundaries == {n \in 1 .. Len(getBoundaries) : Len(getBoundaries[n].pts) > 0}

\* C23: when this process has fewer than 3 interior points along the normal
\* of a boundary, every guard layer of that boundary is set to the last
\* interior value and no error is raised, and the call fails with the
\* not-enough-points error when it has no interior point at all
C23_ConstantFallback ==
  pc = "returned" =>
    \A n \in Boundaries :
      LocalRemain(getBoundaries[n]) < MinExtrapolate =>
        IF LocalRemain(getBoundaries[n]) = 0
        THEN err \in {"Not enough points in the x-direction", "Not enough points in the y-direction"}
        ELSE err = "" /\ ConstantGuards(n)

\* what the code does: the choice is made on the size of the whole grid, the
\* fallback never raises, and no call on these meshes raises
C23_GlobalFallback ==
  pc = "returned" =>
    /\ err = ""
    /\ \A n \in Boundaries :
         GlobalRemain(getBoundaries[n]) < MinExtrapolate => ConstantGuards(n)

\* the first of three processes, with one interior point and one guard cell
\* in x: the guard cell of the inner x boundary is extrapolated from three
\* cells of which the third lies outside the local array, so that it holds
\* whatever was read there
C23_Witness ==
  /\ pc = "returned" /\ err = ""
  /\ mesh.NXPE = NumProcs /\ mesh.PE_XIND = 0 /\ mesh.nx = 1 /\ mesh.MXG = 1
  /\ ~InGrid(xstart + 2, ystart)
  /\ res.f[<<xstart - 1, ystart>>] # res.f[<<xstart, ystart>>]
  /\ \E oob \in Garbage :
       res.f[<<xstart - 1, ystart>>] =
         Add(Sub(Mul(R(3), res.f[<<xstart, ystart>>]), Mul(R(3), res.f[<<xstart + 1, ystart>>])),
             oob)


---------------------------------------------------------------------------
(* The extrapolation at the branch cut                                     *)

CutReturned == pc = "returned" /\ err = "" /\ src.cut

\* the interior columns with a branch cut below, and above
CutDownColumns == {x \in xstart .. xend : hasBranchCutDown(x)}
CutUpColumns == {x \in xstart .. xend : hasBranchCutUp(x)}

\* C24: with extrap_at_branch_cut set, on return every y-guard cell (rows
\* 0 .. ystart-1) of an interior column with a branch cut below holds
\* 3 r[j+1] - 3 r[j+2] + r[j+3] of the result and every upper y-guard cell of
\* an interior column with a branch cut above holds
\* 3 r[j-1] - 3 r[j-2] + r[j-3]: none keeps the value of the halo exchange
C24_BranchCutGuards ==
  CutReturned =>
    \E oob \in Garbage :
      /\ \A x \in CutDownColumns : \A j \in 0 .. ystart - 1 :
           res.f[<<x, j>>] = Cubic(res.f, x, j, 0, -1, oob)
      /\ \A x \in CutUpColumns : \A j \in yend + 1 .. LocalNy - 1 :
           res.f[<<x, j>>] = Cubic(res.f, x, j, 0, 1, oob)

\* what the code does: the loop below the cut stops before row 0, which keeps
\* the value of the halo exchange; above the cut every guard cell is
\* extrapolated from the three rows below it
C24_RowZeroKept ==
  CutReturned =>
    \E oob \in Garbage :
      /\ \A x \in CutDownColumns :
           res.f[<<x, 0>>] = communicate(interp_to(src.f, src.loc, kind.loc, oob))[<<x, 0>>]
      /\ \A x \in CutUpColumns : \A j \in yend + 1 .. LocalNy - 1 :
           res.f[<<x, j>>] = Cubic(res.f, x, j, 0, 1, oob)

\* a column with a branch cut below on a mesh with three interior points and
\* two guard cells in y: row 1 is extrapolated, row 0 is not
C24_Witness ==
  /\ CutReturned /\ mesh.ny = MinExtrapolate /\ mesh.MYG = 2
  /\ \E x \in CutDownColumns : \A oob \in Garbage :
       /\ res.f[<<x, 1>>] = Cubic(res.f, x, 1, 0, -1, oob)
       /\ res.f[<<x, 0>>] # Cubic(res.f, x, 0, 0, -1, oob)
       /\ res.f[<<x, 0>>] = res.f[<<x, mesh.ny>>]


---------------------------------------------------------------------------
(* The corner guard cells                                                  *)

\* x in a guard column and y in a guard row
InCornerRegion(p) == (p[1] < xstart \/ p[1] > xend) /\ (p[2] < ystart \/ p[2] > yend)

\* the result as the boundary loop and the branch-cut step leave it
BeforeCorners(oob) ==
  Let(ExtrapolateBoundaries(communicate(interp_to(src.f, src.loc, kind.loc, oob)),
                            src.f, kind.loc, 1, oob).f, LAMBDA r :
    IF src.cut THEN BranchCutColumns(r, src.f, kind.loc, xstart, oob) ELSE r)

\* C25: on return every cell of the four corner guard regions holds NaN,
\* whatever was written there before, and every other cell holds what the
\* boundary, halo and branch-cut steps left in it
C25_CornersNaN ==
  (pc = "returned" /\ err = "") =>
    /\ \A p \in Points : InCornerRegion(p) => res.f[p] = NaN
    /\ \E oob \in Garbage :
         \E r \in {BeforeCorners(oob)} :
           \A p \in Points : ~InCornerRegion(p) => res.f[p] = r[p]

\* a corner cell that held a finite value of the halo exchange is NaN on
\* return, and the guard cells outside the corners are finite
C25_Witness ==
  /\ pc = "returned" /\ err = "" /\ mesh.MXG = 2 /\ mesh.MYG = 2
  /\ \E oob \in Garbage :
       \E r \in {BeforeCorners(oob)} :
         /\ IsFinite(r[<<0, 0>>]) /\ IsFinite(r[<<LocalNx - 1, LocalNy - 1>>])
         /\ res.f[<<0, 0>>] = NaN /\ res.f[<<LocalNx - 1, LocalNy - 1>>] = NaN
         /\ \A p \in Points : ~InCornerRegion(p) => IsFinite(res.f[p])


---------------------------------------------------------------------------
(* getCoordinates on a non-uniform mesh, with and without d2x, d2y         *)

\* the identity metric with spacings that grow along x and y, and a grid
\* source that has d2x (d2y) or has not
NonUniformSource(k, hasx, hasy) ==
  Let(Source(Scenario("identity", "unit", "none", "none", "none", FALSE), k), LAMBDA s :
    [s EXCEPT !.dx = Tab([p \in Points |-> R(1 + p[1])]),
              !.dy = Tab([p \in Points |-> R(1 + p[2])]),
              !.d2x = IF hasx THEN Tab([p \in Points |-> R(1 + p[1] + p[2])]) ELSE Unset,
              !.d2y = IF hasy THEN Tab([p \in Points |-> R(2 + p[1])]) ELSE Unset])

InitNonUniform ==
  /\ mesh \in Meshes
  /\ kind = [entry |-> "getCoordinates", loc |-> "CELL_CENTRE"]
  /\ \E hasx \in BOOLEAN, hasy \in BOOLEAN : src = NonUniformSource(kind, hasx, hasy)
  /\ res = NewCoordinates
  /\ pc = Program(kind)[1]
  /\ err = ""
  /\ steps = <<>>
  /\ report = <<>>
  /\ ncomm = 0
  /\ call = <<>>

NextNonUniform ==
  \/ Read
  \/ Check
  \/ Covariant
  \/ Jacobian
  \/ Load
  \/ Geometry
  \/ Finish

SpecNonUniform == InitNonUniform /\ [][NextNonUniform]_vars

\* 1 / f at every cell
Reciprocal(f) == Tab([p \in Points |-> Div(One, f[p])])

\* - d2 / (d * d) at every cell
Supplied(d2, d) == Tab([p \in Points |-> Div(Sub(Zero, d2[p]), Mul(d[p], d[p]))])

\* C26: after geometry(), d1_dx is indexDDX(1/dx) when the grid source has no
\* d2x and -d2x/(dx*dx) when it has one, and d1_dy is indexDDY(1/dy) when the
\* source has no d2y and -d2y/(dy*dy) when it has one, whatever was chosen
\* for x
C26_NonUniform ==
  GeometryCompleted =>
    \E oob \in Garbage :
      /\ res.d1_dx = IF src.d2x = Unset THEN indexDDX(Reciprocal(res.dx), oob)
                     ELSE Supplied(src.d2x, res.dx)
      /\ res.d1_dy = IF src.d2y = Unset THEN indexDDY(Reciprocal(res.dy), oob)
                     ELSE Supplied(src.d2y, res.dy)

\* the grid source has d2x and no d2y: d1_dx is -d2x/dx^2, nonzero, and d1_dy
\* is the index derivative of 1/dy, nonzero at an interior point
C26_Witness ==
  /\ GeometryCompleted /\ src.d2x # Unset /\ src.d2y = Unset
  /\ res.d1_dx[<<xstart, ystart>>] = Div(R(-1 - xstart - ystart), R((1 + xstart) * (1 + xstart)))
  /\ res.d1_dy[<<xstart, ystart>>] =
       Mul(Half, Sub(Div(One, R(2 + ystart)), Div(One, R(ystart))))


---------------------------------------------------------------------------
(* the cells interpolateAndExtrapolate indexes                             *)

\* f(x - 2 bx), f(x - bx), f(x), f(x + bx) and result(x), for the extra
\* boundary point
StencilCells(pt, b) == {<<pt[1] + k * b.bx, pt[2] + k * b.by>> : k \in -2 .. 1}

\* result(x, y) and the three cells it is extrapolated from along (sx, sy)
CubicCells(x, y, sx, sy) == {<<x - k * sx, y - k * sy>> : k \in 0 .. 3}

\* the cells indexed for one boundary cell
BoundaryPointAccesses(b, location, pt) ==
  LET es == extrapStart(b, location)
  IN  (IF es > 0 THEN StencilCells(pt, b) ELSE {})
      \cup UNION {IF EnoughPoints(b)
                  THEN CubicCells(pt[1] + i * b.bx, pt[2] + i * b.by, b.bx, b.by)
                  ELSE {<<pt[1] + i * b.bx, pt[2] + i * b.by>>,
                        <<pt[1] - b.bx, pt[2] - b.by>>} : i \in es .. b.width - 1}

\* the cells indexed by the loop over getBoundaries()
BoundaryAccesses(location) ==
  UNION {UNION {BoundaryPointAccesses(getBoundaries[n], location, getBoundaries[n].pts[k]) :
                  k \in 1 .. Len(getBoundaries[n].pts)} :
           n \in 1 .. Len(getBoundaries)}

\* the cells indexed by the extrapolation at the branch cuts
BranchCutAccesses(location) ==
  LET firstjup == IF location = "CELL_YLOW" THEN yend + 1 ELSE yend
  IN  UNION {(IF hasBranchCutDown(i)
              THEN UNION {CubicCells(i, j, 0, -1) : j \in 1 .. ystart - 1}
              ELSE {})
             \cup (IF hasBranchCutUp(i)
                   THEN (IF location = "CELL_YLOW"
                         THEN {<<i, yend + k>> : k \in -2 .. 1} ELSE {})
                        \cup UNION {CubicCells(i, j, 0, 1) : j \in firstjup .. LocalNy - 1}
                   ELSE {}) :
             i \in xstart .. xend}

Accesses(location, extrap_at_branch_cut) ==
  BoundaryAccesses(location)
  \cup (IF extrap_at_branch_cut THEN BranchCutAccesses(location) ELSE {})

\* C27: when interpolateAndExtrapolate returns without an error, every cell
\* its boundary loop and its branch-cut loop read or wrote lies inside
\* [0, LocalNx) x [0, LocalNy)
C27_InsideArray ==
  (pc = "returned" /\ err = "") => Accesses(kind.loc, src.cut) \subseteq Points

\* one x guard cell, CELL_XLOW, enough points to extrapolate: the call returns,
\* the average for the boundary point xend+1 indexed f at x = LocalNx, and
\* what was found there is in the value returned
C27_Witness ==
  /\ pc = "returned" /\ err = "" /\ kind.loc = "CELL_XLOW" /\ ~src.cut
  /\ mesh.MXG = 1 /\ mesh.nx = MinExtrapolate
  /\ <<LocalNx, ystart>> \in Accesses(kind.loc, src.cut)
  /\ \A p \in Points : IsFinite(src.f[p])
  /\ res.f[<<xend + 1, ystart>>] = NaN


---------------------------------------------------------------------------
(* ShiftAngle of getCoordinatesStaggered at CELL_XLOW                      *)

\* the entries of the source ShiftAngle the interpolation loop indexes
ShiftAngleReads == {x + k : x \in xstart .. xend, k \in -2 .. 1}

\* the entries of the result ShiftAngle the interpolation loop assigns
ShiftAngleAssigned == xstart .. xend

\* the columns whose zShift guard cells the branch-cut correction changes
CorrectedColumns ==
  {x \in 0 .. LocalNx - 1 : hasBranchCutDown(x) \/ hasBranchCutUp(x)}

XLOWShiftBuilt ==
  StaggeredBuilt /\ err = "" /\ kind.loc = "CELL_XLOW" /\ src.ShiftAngle # Unset

\* C28: building CELL_XLOW coordinates from a source with a ShiftAngle, every
\* entry x-2 .. x+1 of the source ShiftAngle read for x = xstart .. xend lies
\* in [0, LocalNx), and every entry of the result ShiftAngle the branch-cut
\* correction applies was assigned by the interpolation
C28_ShiftAngleInRange ==
  XLOWShiftBuilt =>
    /\ ShiftAngleReads \subseteq 0 .. LocalNx - 1
    /\ CorrectedColumns \subseteq ShiftAngleAssigned

\* one x guard cell and the inner columns closed: what was found at entry -1
\* of the source is in ShiftAngle[xstart], and guard column 0, which the
\* correction changes, was never assigned and holds the zero left by resize
C28_Witness ==
  /\ XLOWShiftBuilt /\ mesh.MXG = 1
  /\ -1 \in ShiftAngleReads
  /\ \E g \in Garbage :
       /\ IsFinite(g)
       /\ res.ShiftAngle[xstart] =
            interp(g, src.ShiftAngle[xstart - 1], src.ShiftAngle[xstart],
                   src.ShiftAngle[xstart + 1])
  /\ 0 \in CorrectedColumns /\ 0 \notin ShiftAngleAssigned
  /\ res.ShiftAngle[0] = Zero


---------------------------------------------------------------------------
(* Delp2 of a FieldPerp against Delp2 of the Field3D it was taken from     *)

\* what an entry of a Matrix holds that was allocated and never assigned:
\* zero, or what the memory held before
Unassigned == {Zero} \cup Garbage

\* Delp2(const FieldPerp &f, outloc) for the x-z slice f at y index jy
Delp2_Perp(c, f, jy, floc, outloc, check, oob, stale) ==
  LET failed == Delp2_Perp_asserts(c, outloc, floc, check)
      delft == [jx \in 0 .. LocalNx - 1 |->
                  IF jx >= 2 /\ jx < LocalNx - 2
                  THEN LET t == laplace_tridag_coefs(c, <<jx, jy>>, oob)
                       IN  Add(Add(Mul(t.a, f[jx - 1]), Mul(t.b, f[jx])),
                               Mul(t.c, f[jx + 1]))
                  ELSE stale]
  IN  IF failed # "" THEN [failed |-> failed, f |-> Unset, loc |-> floc]
      ELSE [failed |-> "", loc |-> floc,
            f |-> [jx \in 0 .. LocalNx - 1 |->
                     IF jx = 0 \/ jx = LocalNx - 1 THEN Zero ELSE delft[jx]]]

\* the FieldPerp taken from a 3D field at y index jy
sliceXZ(f, jy) == [jx \in 0 .. LocalNx - 1 |-> f[<<jx, jy>>]]

\* one process, one or two x guard cells
PerpMeshes == {m \in Delp2Meshes3D : m.NXPE = 1 /\ m.MXG >= 1}

InitPerp ==
  /\ mesh \in PerpMeshes
  /\ kind = [entry |-> "Delp2", loc |-> "CELL_CENTRE"]
  /\ \E f \in GlobalFields, c \in GlobalGeometries, jy \in 0 .. LocalNy - 1,
        outloc \in {"CELL_DEFAULT", "CELL_CENTRE"}, check \in 1 .. 2 :
       src = [f |-> f, floc |-> "CELL_CENTRE", outloc |-> outloc, check |-> check,
              geometry |-> c, jy |-> jy]
  /\ res = [full |-> Unset, perp |-> Unset]
  /\ pc = "run"
  /\ err = ""
  /\ steps = <<>>
  /\ report = <<>>
  /\ ncomm = 0
  /\ call = <<>>

\* Delp2(f) of the 3D field
CallDelp2_Field3D ==
  /\ pc = "run" /\ res.full = Unset
  /\ \E oob \in Garbage :
       \E r \in {Delp2_3D(src.geometry, src.f, src.floc, src.outloc, src.check, oob)} :
         /\ res' = [res EXCEPT !.full = r]
         /\ err' = r.failed
         /\ pc' = IF r.failed # "" THEN "failed" ELSE "run"
  /\ UNCHANGED <<mesh, kind, src, steps, report, ncomm, call>>

\* Delp2(sliceXZ(f, jy)) of the FieldPerp
CallDelp2_FieldPerp ==
  /\ pc = "run" /\ res.perp = Unset
  /\ \E oob \in Garbage, stale \in Unassigned :
       \E r \in {Delp2_Perp(src.geometry, sliceXZ(src.f, src.jy), src.jy, src.floc,
                            src.outloc, src.check, oob, stale)} :
         /\ res' = [res EXCEPT !.perp = r]
         /\ err' = r.failed
         /\ pc' = IF r.failed # "" THEN "failed" ELSE "run"
  /\ UNCHANGED <<mesh, kind, src, steps, report, ncomm, call>>

NextPerp ==
  \/ CallDelp2_Field3D
  \/ CallDelp2_FieldPerp

SpecPerp == InitPerp /\ [][NextPerp]_vars

BothReturned == pc = "run" /\ res.full # Unset /\ res.perp # Unset

\* C29: Delp2 of the FieldPerp taken at y index jy equals the jy slice of
\* Delp2 of the 3D field at every x, with one x guard cell and with two
C29_PerpIsSlice ==
  BothReturned => res.perp.f = sliceXZ(res.full.f, src.jy)

\* with two x guard cells the two agree at every interior point, and at the
\* guard cells next to the interior when the unassigned entries are zero
C29_InteriorWithTwoGuards ==
  (BothReturned /\ mesh.MXG = 2) =>
     \A jx \in xstart .. xend : res.perp.f[jx] = res.full.f[<<jx, src.jy>>]

\* one x guard cell, finite data: at the interior point xstart the 3D result
\* is the tridiagonal combination and the FieldPerp result is not
C29_Witness ==
  /\ BothReturned /\ mesh.MXG = 1
  /\ \A p \in Points : IsFinite(src.f[p])
  /\ IsFinite(res.full.f[<<xstart, src.jy>>])
  /\ res.full.f[<<xstart, src.jy>>] # Zero
  /\ res.perp.f[xstart] \in Unassigned
  /\ res.perp.f[xstart] # res.full.f[<<xstart, src.jy>>]
  /\ res.perp.f[xstart + 1] = res.full.f[<<xstart + 1, src.jy>>]

=============================================================================
